---- MODULE Spec2Model ----
(***************************************************************************)
(* The multi-agent orchestration service: OrchestratorService              *)
(* (processRequest, determineWorkflow, the four workflow strategies),      *)
(* ChatAgent and BaseAgent.  Text is a sequence of one-character strings,  *)
(* so that toLowerCase, includes, split and the templates of the code are  *)
(* computed rather than assumed.                                           *)
(***************************************************************************)
EXTENDS Integers, Sequences, FiniteSets, TLC

(* ------------------------------ bounds --------------------------------- *)
\* process calls issued in one behaviour of Spec and of FairSpec
MaxCalls == 2
\* phrases joined into one sampled input of SpecClassify
MaxPhrases == 2

(* ------------------------------- text ---------------------------------- *)
\* String.prototype.toLowerCase: the letters it changes
UpperToLower ==
    [A |-> "a", B |-> "b", C |-> "c", D |-> "d", E |-> "e", F |-> "f",
     G |-> "g", H |-> "h", I |-> "i", J |-> "j", K |-> "k", L |-> "l",
     M |-> "m", N |-> "n", O |-> "o", P |-> "p", Q |-> "q", R |-> "r",
     S |-> "s", T |-> "t", U |-> "u", V |-> "v", W |-> "w", X |-> "x",
     Y |-> "y", Z |-> "z"]

LowerChar(c) == IF c \in DOMAIN UpperToLower THEN UpperToLower[c] ELSE c

toLowerCase(text) ==
    IF text = <<>> THEN <<>>
    ELSE SubSeq([i \in 1..Len(text) |-> LowerChar(text[i])], 1, Len(text))

\* String.prototype.includes: kw occurs in text as a contiguous substring
includes(text, kw) ==
    \E i \in 1..(Len(text) - Len(kw) + 1) :
        \A j \in 1..Len(kw) : text[i + j - 1] = kw[j]

\* characters matched by \s in the sampled texts
IsSpace(c) == c \in {" ", "\n", "\t"}

\* String.prototype.trim
RECURSIVE TrimLeft(_)
TrimLeft(text) ==
    IF text # <<>> /\ IsSpace(Head(text)) THEN TrimLeft(Tail(text)) ELSE text

RECURSIVE TrimRight(_)
TrimRight(text) ==
    IF text # <<>> /\ IsSpace(text[Len(text)])
    THEN TrimRight(SubSeq(text, 1, Len(text) - 1))
    ELSE text

trim(text) == TrimRight(TrimLeft(text))

\* text.split(/\s+/): the maximal runs of non-space characters (an empty
\* first or last piece, which the code gets for leading or trailing
\* whitespace, contains no keyword and is left out)
WordStarts(text) ==
    {i \in 1..Len(text) : ~IsSpace(text[i]) /\ (i = 1 \/ IsSpace(text[i - 1]))}

WordEnd(text, i) ==
    CHOOSE e \in i..Len(text) :
        /\ \A j \in i..e : ~IsSpace(text[j])
        /\ e = Len(text) \/ IsSpace(text[e + 1])

split(text) ==
    LET starts == WordStarts(text)
        Nth[n \in 1..Cardinality(starts)] ==
            CHOOSE i \in starts : Cardinality({p \in starts : p < i}) = n - 1
    IN  [n \in 1..Cardinality(starts) |-> SubSeq(text, Nth[n], WordEnd(text, Nth[n]))]

\* Array.prototype.join
RECURSIVE join(_, _)
join(parts, sep) ==
    IF parts = <<>> THEN <<>>
    ELSE IF Len(parts) = 1 THEN parts[1]
    ELSE parts[1] \o sep \o join(Tail(parts), sep)

Range(s) == {s[i] : i \in DOMAIN s}

(* ---------------------------- keyword sets ----------------------------- *)
codeIndicators ==
    << <<"c", "o", "d", "e">>, <<"f", "u", "n", "c", "t", "i", "o", "n">>,
      <<"c", "l", "a", "s", "s">>, <<"b", "u", "g">>,
      <<"d", "e", "b", "u", "g">>,
      <<"i", "m", "p", "l", "e", "m", "e", "n", "t">> >>

reasoningIndicators ==
    << <<"a", "n", "a", "l", "y", "z", "e">>,
      <<"e", "x", "p", "l", "a", "i", "n">>, <<"w", "h", "y">>,
      <<"h", "o", "w">>, <<"c", "o", "m", "p", "a", "r", "e">>,
      <<"e", "v", "a", "l", "u", "a", "t", "e">> >>

codeKeywords ==
    << <<"c", "o", "d", "e">>, <<"f", "u", "n", "c", "t", "i", "o", "n">>,
      <<"c", "l", "a", "s", "s">>, <<"m", "e", "t", "h", "o", "d">>,
      <<"v", "a", "r", "i", "a", "b", "l", "e">>,
      <<"a", "l", "g", "o", "r", "i", "t", "h", "m">>,
      <<"i", "m", "p", "l", "e", "m", "e", "n", "t">>,
      <<"d", "e", "b", "u", "g">>, <<"f", "i", "x">>,
      <<"r", "e", "f", "a", "c", "t", "o", "r">>,
      <<"o", "p", "t", "i", "m", "i", "z", "e">>,
      <<"w", "r", "i", "t", "e">>, <<"c", "r", "e", "a", "t", "e">>,
      <<"b", "u", "i", "l", "d">>, <<"d", "e", "v", "e", "l", "o", "p">>,
      <<"p", "r", "o", "g", "r", "a", "m">> >>

reasoningKeywords ==
    << <<"e", "x", "p", "l", "a", "i", "n">>, <<"w", "h", "y">>,
      <<"h", "o", "w">>, <<"a", "n", "a", "l", "y", "z", "e">>,
      <<"c", "o", "m", "p", "a", "r", "e">>,
      <<"e", "v", "a", "l", "u", "a", "t", "e">>,
      <<"p", "r", "o", "s", " ", "a", "n", "d", " ", "c", "o", "n", "s">>,
      <<"b", "e", "s", "t", " ", "p", "r", "a", "c", "t", "i", "c", "e">>,
      <<"r", "e", "c", "o", "m", "m", "e", "n", "d">>,
      <<"s", "u", "g", "g", "e", "s", "t">>,
      <<"a", "r", "c", "h", "i", "t", "e", "c", "t", "u", "r", "e">>,
      <<"d", "e", "s", "i", "g", "n", " ", "p", "a", "t", "t", "e", "r", "n">>,
      <<"t", "r", "a", "d", "e", "-", "o", "f", "f">> >>

analysisIndicators ==
    << <<"a", "r", "c", "h", "i", "t", "e", "c", "t", "u", "r", "e">>,
      <<"d", "e", "s", "i", "g", "n", " ", "p", "a", "t", "t", "e", "r", "n">>,
      <<"b", "e", "s", "t", " ", "p", "r", "a", "c", "t", "i", "c", "e">>,
      <<"p", "e", "r", "f", "o", "r", "m", "a", "n", "c", "e">>,
      <<"s", "c", "a", "l", "a", "b", "i", "l", "i", "t", "y">>,
      <<"s", "e", "c", "u", "r", "i", "t", "y">>,
      <<"m", "a", "i", "n", "t", "a", "i", "n", "a", "b", "i", "l", "i", "t", "y">>,
      <<"t", "r", "a", "d", "e", "-", "o", "f", "f">>,
      <<"p", "r", "o", "s", " ", "a", "n", "d", " ", "c", "o", "n", "s">>,
      <<"a", "d", "v", "a", "n", "t", "a", "g", "e", "s">>,
      <<"d", "i", "s", "a", "d", "v", "a", "n", "t", "a", "g", "e", "s">> >>

ValidatePrefix ==
    <<"V", "a", "l", "i", "d", "a", "t", "e", " ", "t", "h", "i", "s", " ",
      "c", "o", "d", "e", ":", " ">>

AnalyzePrefix ==
    <<"A", "n", "a", "l", "y", "z", "e", " ", "a", "n", "d", " ", "e", "x",
      "p", "l", "a", "i", "n", " ", "t", "h", "i", "s", " ", "c", "o", "d",
      "e", " ", "s", "o", "l", "u", "t", "i", "o", "n", ":", " ">>

ExplainPrefix ==
    <<"E", "x", "p", "l", "a", "i", "n", " ", "t", "h", "i", "s", " ", "s",
      "o", "l", "u", "t", "i", "o", "n", " ", "t", "o", " ", "t", "h", "e",
      " ", "u", "s", "e", "r", ":", " ">>

ComprehensiveInput ==
    <<"P", "r", "o", "v", "i", "d", "e", " ", "a", " ", "c", "o", "m", "p",
      "r", "e", "h", "e", "n", "s", "i", "v", "e", " ", "r", "e", "s", "p",
      "o", "n", "s", "e", " ", "b", "a", "s", "e", "d", " ", "o", "n", " ",
      "t", "h", "i", "s", " ", "a", "n", "a", "l", "y", "s", "i", "s", " ",
      "a", "n", "d", " ", "i", "m", "p", "l", "e", "m", "e", "n", "t", "a",
      "t", "i", "o", "n">>

FriendlyPrefix ==
    <<"M", "a", "k", "e", " ", "t", "h", "i", "s", " ", "a", "n", "a", "l",
      "y", "s", "i", "s", " ", "u", "s", "e", "r", "-", "f", "r", "i", "e",
      "n", "d", "l", "y", ":", " ">>

SynthesizeInput ==
    <<"S", "y", "n", "t", "h", "e", "s", "i", "z", "e", " ", "t", "h", "e",
      "s", "e", " ", "t", "h", "r", "e", "e", " ", "p", "e", "r", "s", "p",
      "e", "c", "t", "i", "v", "e", "s", " ", "i", "n", "t", "o", " ", "a",
      " ", "c", "o", "m", "p", "r", "e", "h", "e", "n", "s", "i", "v", "e",
      " ", "r", "e", "s", "p", "o", "n", "s", "e">>

CodeRequestPrefix ==
    <<"C", "o", "d", "e", " ", "r", "e", "q", "u", "e", "s", "t", ":", " ">>

GenerateCodePrefix ==
    <<"G", "e", "n", "e", "r", "a", "t", "e", " ", "c", "o", "d", "e", " ",
      "f", "o", "r", ":", " ">>

DeepAnalysisPrefix ==
    <<"P", "r", "o", "v", "i", "d", "e", " ", "d", "e", "e", "p", " ", "a",
      "n", "a", "l", "y", "s", "i", "s", " ", "f", "o", "r", ":", " ">>

UndefinedText ==
    <<"u", "n", "d", "e", "f", "i", "n", "e", "d">>


(* --------------------- OrchestratorService (pure) ---------------------- *)
WorkflowKinds == {"chat-first", "code-first", "reasoning-first", "collaborative"}

\* the reasoning indicators are tested first, and in the input as typed
determineWorkflowReasoningFirst(input) ==
    IF \E i \in DOMAIN reasoningIndicators : includes(input, reasoningIndicators[i])
    THEN "reasoning-first"
    ELSE IF \E i \in DOMAIN codeIndicators : includes(input, codeIndicators[i])
         THEN "code-first"
         ELSE "chat-first"

\* determineWorkflow: the code indicators are tested before the reasoning
\* indicators; the default is chat-first
determineWorkflow(input) ==
    LET lowerInput == toLowerCase(input) IN
    IF \E i \in DOMAIN codeIndicators : includes(lowerInput, codeIndicators[i])
    THEN "code-first"
    ELSE IF \E i \in DOMAIN reasoningIndicators :
                includes(lowerInput, reasoningIndicators[i])
         THEN "reasoning-first"
         ELSE "chat-first"

\* a combination that keeps the last response only
combineResponsesLast(results) == results[Len(results)].response

\* combineResponses: results.map(r => r.response).join('\n\n')
combineResponses(results) ==
    join([i \in DOMAIN results |-> results[i].response], <<"\n", "\n">>)

\* executeWorkflow: models = {} gives every role the model 'default'
workflowConfig ==
    [chatModel |-> "default", codeModel |-> "default", reasoningModel |-> "default"]

(* ---------------------------- context maps ----------------------------- *)
\* a context is a function from keys to values; {...a, ...b} lets b win
EmptyContext == [k \in {} |-> <<>>]

Spread(a, b) ==
    [k \in DOMAIN a \cup DOMAIN b |-> IF k \in DOMAIN b THEN b[k] ELSE a[k]]

Has(ctx, key) == key \in DOMAIN ctx

(* --------------------------- ChatAgent (pure) -------------------------- *)
\* calculateKeywordScore: <<matched keywords, keywords>>; a keyword counts
\* when one whitespace-separated word of the text includes it
calculateKeywordScore(text, keywords) ==
    LET words == split(text)
        matches == {i \in DOMAIN keywords :
                       \E w \in DOMAIN words : includes(words[w], keywords[i])}
    IN  <<Cardinality(matches), Len(keywords)>>

\* score > 0.3, in integers
ScoreAboveThreshold(score) == 10 * score[1] > 3 * score[2]

\* the text of a line from position i on: '.' does not match a newline
RestOfLine(text) ==
    LET breaks == {i \in 1..Len(text) : text[i] = "\n"}
    IN  IF breaks = {} THEN text
        ELSE SubSeq(text, 1, (CHOOSE i \in breaks : \A j \in breaks : i <= j) - 1)

StartsWith(text, prefix) ==
    Len(text) >= Len(prefix) /\ SubSeq(text, 1, Len(prefix)) = prefix

\* one pattern /verb (?:a1 |a2 |a3 )?(.+)/i of extractCodeRequest and
\* extractTasks: <<>> when it does not match, else the capture group
\* (never empty).  The leftmost match wins; the optional article is taken
\* when something is left on the line after it.
PatternPositions(input, verb) ==
    LET lower == toLowerCase(input)
        head == verb \o <<" ">>
    IN  {i \in 1..(Len(input) - Len(head)) :
            /\ \A j \in 1..Len(head) : lower[i + j - 1] = head[j]
            /\ input[i + Len(head)] # "\n"}

RECURSIVE AfterArticle(_, _)
AfterArticle(rest, articles) ==
    IF articles = <<>> THEN RestOfLine(rest)
    ELSE LET art == Head(articles) \o <<" ">>
             tail == SubSeq(rest, Len(art) + 1, Len(rest))
         IN  IF StartsWith(toLowerCase(rest), art) /\ RestOfLine(tail) # <<>>
             THEN RestOfLine(tail)
             ELSE AfterArticle(rest, Tail(articles))

PatternCapture(input, verb, articles) ==
    LET pos == PatternPositions(input, verb) IN
    IF pos = {} THEN <<>>
    ELSE LET i == CHOOSE p \in pos : \A q \in pos : p <= q
         IN  AfterArticle(SubSeq(input, i + Len(verb) + 1, Len(input)), articles)

codeRequestPatterns ==
    << [verb |-> <<"w", "r", "i", "t", "e">>,
        articles |-> << <<"a">>, <<"a", "n">>, <<"s", "o", "m", "e">> >>],
       [verb |-> <<"c", "r", "e", "a", "t", "e">>,
        articles |-> << <<"a">>, <<"a", "n">>, <<"s", "o", "m", "e">> >>],
       [verb |-> <<"i", "m", "p", "l", "e", "m", "e", "n", "t">>,
        articles |-> << <<"a">>, <<"a", "n">>, <<"t", "h", "e">> >>],
       [verb |-> <<"b", "u", "i", "l", "d">>,
        articles |-> << <<"a">>, <<"a", "n">>, <<"t", "h", "e">> >>] >>

\* extractCodeRequest: the first pattern, in list order, that matches
extractCodeRequest(input) ==
    LET hits == {i \in DOMAIN codeRequestPatterns :
                    PatternCapture(input, codeRequestPatterns[i].verb,
                                   codeRequestPatterns[i].articles) # <<>>}
    IN  IF hits = {} THEN GenerateCodePrefix \o input
        ELSE LET i == CHOOSE p \in hits : \A q \in hits : p <= q
             IN  CodeRequestPrefix \o
                 PatternCapture(input, codeRequestPatterns[i].verb,
                                codeRequestPatterns[i].articles)

\* extractReasoningRequest
extractReasoningRequest(input) ==
    LET lower == toLowerCase(input) IN
    IF includes(lower, <<"e", "x", "p", "l", "a", "i", "n">>)
    THEN <<"E", "x", "p", "l", "a", "i", "n", ":", " ">> \o input
    ELSE IF includes(lower, <<"a", "n", "a", "l", "y", "z", "e">>)
    THEN <<"A", "n", "a", "l", "y", "z", "e", ":", " ">> \o input
    ELSE IF includes(lower, <<"c", "o", "m", "p", "a", "r", "e">>)
    THEN <<"C", "o", "m", "p", "a", "r", "e", ":", " ">> \o input
    ELSE <<"P", "r", "o", "v", "i", "d", "e", " ", "r", "e", "a", "s", "o", "n",
           "i", "n", "g", " ", "f", "o", "r", ":", " ">> \o input

\* needsDeepAnalysis
needsDeepAnalysis(input) ==
    LET lower == toLowerCase(input) IN
    \E i \in DOMAIN analysisIndicators : includes(lower, analysisIndicators[i])

\* determineResponseStrategy; confidence is kept in tenths (0.8 is 8).  The
\* null of codeRequest and reasoningRequest is the empty text: the callers
\* read them only through `x || input`, which treats the two alike.
determineResponseStrategy(input, context, role) ==
    LET lowerInput == toLowerCase(input)
        codeScore == calculateKeywordScore(lowerInput, codeKeywords)
        reasoningScore == calculateKeywordScore(lowerInput, reasoningKeywords)
        byRole == role \in {"interpreter", "synthesizer"}
        needsCode == ~byRole /\ ScoreAboveThreshold(codeScore)
        reasoningHit == ~byRole /\ ScoreAboveThreshold(reasoningScore)
        deep == ~byRole /\ needsDeepAnalysis(input)
        bonus == IF context.userProfile.expertise = "expert" THEN 1 ELSE 0
    IN  [type |-> IF role = "interpreter" THEN "interpretation"
                  ELSE IF role = "synthesizer" THEN "synthesis"
                  ELSE IF deep THEN "analysis-assisted"
                  ELSE IF reasoningHit
                       THEN (IF needsCode THEN "multi-agent" ELSE "reasoning-assisted")
                  ELSE IF needsCode THEN "code-assisted"
                  ELSE "conversational",
         confidence |-> (IF byRole THEN 9 ELSE 8) + bonus,
         needsCode |-> needsCode,
         needsReasoning |-> reasoningHit \/ deep,
         codeRequest |-> IF needsCode THEN extractCodeRequest(input) ELSE <<>>,
         reasoningRequest |->
             IF deep THEN DeepAnalysisPrefix \o input
             ELSE IF reasoningHit THEN extractReasoningRequest(input)
             ELSE <<>>]

\* the keys of this.systemPrompts
systemPromptNames == {"default", "interpreter", "synthesizer"}

\* generateResponse: this.systemPrompts[strategy.type] || this.systemPrompts.default
\* (the preamble is represented by its key)
selectSystemPrompt(strategy) ==
    IF strategy.type \in systemPromptNames THEN strategy.type ELSE "default"

\* cleanupResponse: the sampled model texts hold no newline, code fence or
\* sentence punctuation, so of its rewrites only the final trim() applies
cleanupResponse(text) == trim(text)

\* postProcessResponse: cleanupResponse, then addContextualEnhancements and
\* formatCodeBlocks, which rewrite code fences only
postProcessResponse(response) == [response EXCEPT !.text = cleanupResponse(@)]

(* ------------------------ ChatAgent (local state) ---------------------- *)
expertTerms ==
    << <<"o", "p", "t", "i", "m", "i", "z", "e">>,
      <<"p", "e", "r", "f", "o", "r", "m", "a", "n", "c", "e">>,
      <<"a", "r", "c", "h", "i", "t", "e", "c", "t", "u", "r", "e">>,
      <<"s", "c", "a", "l", "a", "b", "i", "l", "i", "t", "y">> >>

techKeywords ==
    << <<"j", "a", "v", "a", "s", "c", "r", "i", "p", "t">>,
      <<"p", "y", "t", "h", "o", "n">>, <<"j", "a", "v", "a">>,
      <<"r", "e", "a", "c", "t">>, <<"n", "o", "d", "e", ".", "j", "s">>,
      <<"d", "o", "c", "k", "e", "r">>,
      <<"k", "u", "b", "e", "r", "n", "e", "t", "e", "s">>,
      <<"a", "w", "s">>,
      <<"m", "a", "c", "h", "i", "n", "e", " ", "l", "e", "a", "r", "n", "i", "n", "g">>,
      <<"a", "i">>, <<"d", "a", "t", "a", "b", "a", "s", "e">> >>

techTerms ==
    << <<"j", "a", "v", "a", "s", "c", "r", "i", "p", "t">>,
      <<"p", "y", "t", "h", "o", "n">>, <<"r", "e", "a", "c", "t">>,
      <<"n", "o", "d", "e", ".", "j", "s">>,
      <<"d", "a", "t", "a", "b", "a", "s", "e">>, <<"a", "p", "i">>,
      <<"f", "r", "o", "n", "t", "e", "n", "d">>,
      <<"b", "a", "c", "k", "e", "n", "d">>,
      <<"t", "e", "s", "t", "i", "n", "g">>,
      <<"d", "e", "p", "l", "o", "y", "m", "e", "n", "t">>,
      <<"s", "e", "c", "u", "r", "i", "t", "y">> >>

taskVerbs ==
    << <<"n", "e", "e", "d", " ", "t", "o">>,
      <<"w", "a", "n", "t", " ", "t", "o">>,
      <<"s", "h", "o", "u", "l", "d">>, <<"w", "i", "l", "l">> >>

\* a slice that drops nothing
SliceWhole(s, n) == s

\* Array.prototype.slice(-n)
SliceLast(s, n) == IF Len(s) <= n THEN s ELSE SubSeq(s, Len(s) - n + 1, Len(s))

\* [...new Set(s)]: the first occurrence of every value, in order
RECURSIVE Dedup(_)
Dedup(s) ==
    IF s = <<>> THEN <<>>
    ELSE LET init == Dedup(SubSeq(s, 1, Len(s) - 1))
             last == s[Len(s)]
         IN  IF last \in Range(init) THEN init ELSE Append(init, last)

\* the profile buildContext creates for an unknown user id
NewUserProfile == [expertise |-> "beginner", interests |-> <<>>, previousQuestions |-> <<>>]

\* updateUserProfile, what it reads from the input: whether an expert term
\* occurs, and the techKeywords that occur, in list order
ProfileSignals(input) ==
    LET lower == toLowerCase(input)
        F[i \in 0..Len(techKeywords)] ==
            IF i = 0 THEN <<>>
            ELSE IF includes(lower, techKeywords[i]) THEN Append(F[i - 1], techKeywords[i])
            ELSE F[i - 1]
    IN  [expert |-> \E i \in DOMAIN expertTerms : includes(lower, expertTerms[i]),
         tech |-> F[Len(techKeywords)]]

\* updateUserProfile, the techKeywords.forEach loop over the keywords found
RECURSIVE AddInterests(_, _)
AddInterests(interests, tech) ==
    IF tech = <<>> THEN interests
    ELSE IF Head(tech) \notin Range(interests)
         THEN AddInterests(SliceLast(Append(interests, Head(tech)), 10), Tail(tech))
         ELSE AddInterests(interests, Tail(tech))

\* an update in which one expert term makes an expert
updateUserProfileAtOnce(profile, input, signals) ==
    [expertise |-> IF signals.expert THEN "expert" ELSE profile.expertise,
     interests |-> AddInterests(profile.interests, signals.tech),
     previousQuestions |-> SliceLast(Append(profile.previousQuestions, input), 20)]

\* updateUserProfile, given the signals of its input
updateUserProfile(profile, input, signals) ==
    [expertise |->
         IF signals.expert /\ profile.expertise = "beginner" THEN "intermediate"
         ELSE IF signals.expert /\ profile.expertise = "intermediate" THEN "expert"
         ELSE profile.expertise,
     interests |-> AddInterests(profile.interests, signals.tech),
     previousQuestions |-> SliceLast(Append(profile.previousQuestions, input), 20)]

\* context.userId || 'anonymous'
UserIdOf(context) == IF Has(context, "userId") THEN context.userId ELSE "anonymous"

\* this.userProfiles after buildContext ran for a request
ProfilesAfterBuild(profiles, input, context, signals) ==
    LET userId == UserIdOf(context)
        old == IF userId \in DOMAIN profiles THEN profiles[userId] ELSE NewUserProfile
    IN  [u \in DOMAIN profiles \cup {userId} |->
            IF u = userId THEN updateUserProfile(old, input, signals) ELSE profiles[u]]

\* analyzeProjectContext and analyzeFileContext
analyzeProjectContext(projectInfo) == [summary |-> projectInfo.name]
analyzeFileContext(fileInfo) == [name |-> fileInfo.name, language |-> fileInfo.language]

\* buildContext: the enhanced context.  userProfile is the shared profile
\* object, kept here as the user id it is stored under; the timestamp is
\* left out.
buildContext(input, conversation, context, requestId, convContext) ==
    LET base == Spread(context,
                    [requestId |-> requestId,
                     conversationHistory |-> SliceLast(conversation, 10),
                     userProfile |-> UserIdOf(context)])
        withProject == IF Has(context, "projectInfo")
                       THEN Spread(base, [projectContext |->
                                analyzeProjectContext(context.projectInfo)])
                       ELSE base
        withFile == IF Has(context, "currentFile")
                    THEN Spread(withProject, [fileContext |->
                             analyzeFileContext(context.currentFile)])
                    ELSE withProject
    IN  IF Has(context, "conversationId") /\ context.conversationId \in DOMAIN convContext
        THEN Spread(withFile,
                 [semanticContext |-> convContext[context.conversationId].topics,
                  ongoingTasks |-> convContext[context.conversationId].tasks])
        ELSE withFile

\* extractTopics
extractTopics(text) ==
    LET lower == toLowerCase(text)
        F[i \in 0..Len(techTerms)] ==
            IF i = 0 THEN <<>>
            ELSE IF includes(lower, techTerms[i]) THEN Append(F[i - 1], techTerms[i])
            ELSE F[i - 1]
    IN  F[Len(techTerms)]

\* the lines of a text
Lines(text) ==
    LET breaks == {0, Len(text) + 1} \cup {i \in 1..Len(text) : text[i] = "\n"}
        Nth[n \in 1..Cardinality(breaks)] ==
            CHOOSE i \in breaks : Cardinality({b \in breaks : b < i}) = n - 1
    IN  SubSeq([n \in 1..(Cardinality(breaks) - 1) |->
                   SubSeq(text, Nth[n] + 1, Nth[n + 1] - 1)],
               1, Cardinality(breaks) - 1)

\* extractTasks: every pattern /verb (.+)/gi, in list order, matches at most
\* once per line and captures the rest of that line
extractTasks(input) ==
    LET lines == Lines(input)
        OfLine[v \in DOMAIN taskVerbs, l \in 0..Len(lines)] ==
            IF l = 0 THEN <<>>
            ELSE LET cap == PatternCapture(lines[l], taskVerbs[v], <<>>)
                 IN  IF cap = <<>> THEN OfLine[v, l - 1]
                     ELSE Append(OfLine[v, l - 1], [description |-> cap, status |-> "pending"])
        OfVerbs[v \in 0..Len(taskVerbs)] ==
            IF v = 0 THEN <<>> ELSE OfVerbs[v - 1] \o OfLine[v, Len(lines)]
    IN  OfVerbs[Len(taskVerbs)]

NewConversationContext == [topics |-> <<>>, tasks |-> <<>>]

\* updateConversationContext: this.conversationContext afterwards, where
\* topics is extractTopics(input + ' ' + response.text) and tasks is
\* extractTasks(input)
updateConversationContext(convContext, context, topics, tasks) ==
    IF ~Has(context, "conversationId") THEN convContext
    ELSE LET id == context.conversationId
             old == IF id \in DOMAIN convContext THEN convContext[id]
                    ELSE NewConversationContext
             new == [topics |-> SliceLast(Dedup(old.topics \o topics), 20),
                     tasks |-> IF tasks # <<>> THEN SliceLast(old.tasks \o tasks, 10)
                               ELSE old.tasks]
         IN  [c \in DOMAIN convContext \cup {id} |-> IF c = id THEN new ELSE convContext[c]]

(* ---------------------------- sampled inputs --------------------------- *)
InHello ==
    <<"h", "e", "l", "l", "o">>

InWrite ==
    <<"w", "r", "i", "t", "e", " ", "p", "r", "o", "g", "r", "a", "m", " ",
      "b", "u", "i", "l", "d", " ", "m", "e", "t", "h", "o", "d", " ", "f",
      "i", "x">>

InReverse ==
    <<"w", "r", "i", "t", "e", " ", "a", " ", "f", "u", "n", "c", "t", "i",
      "o", "n", " ", "t", "o", " ", "r", "e", "v", "e", "r", "s", "e", " ",
      "a", " ", "s", "t", "r", "i", "n", "g">>

InQuicksort ==
    <<"e", "x", "p", "l", "a", "i", "n", " ", "h", "o", "w", " ", "q", "u",
      "i", "c", "k", "s", "o", "r", "t", " ", "w", "o", "r", "k", "s">>

InSecurity ==
    <<"s", "e", "c", "u", "r", "i", "t", "y">>

TextOk ==
    <<"o", "k">>

TextPadded ==
    <<" ", "d", "o", "n", "e", " ">>

TextCode ==
    <<"x", "=", "1">>

TextAnalysis ==
    <<"s", "o", "u", "n", "d">>

\* request bodies of POST /process
Inputs == {InHello, InWrite, InReverse, InQuicksort, InSecurity}

Workflows == WorkflowKinds \cup {"auto", "pipeline"}

\* the key under which an omitted conversationId is stored
NoConversationId == "undefined"

ConversationIds == {"c1", NoConversationId}

Contexts == {EmptyContext, [conversationId |-> "c1", userId |-> "u1"]}

\* texts the Model Access Layer returns to the Chat agent
ModelTexts == {TextOk, TextPadded}

Calls == 1..MaxCalls

ProcessBody(input, conversationId, context, workflow) ==
    [input |-> input, conversationId |-> conversationId, context |-> context,
     workflow |-> workflow]

\* a caller's context with a key of its own under a name the workflows
\* seed
OwnCodeContext == [conversationId |-> "c1", codeContext |-> [note |-> "caller"]]

\* the sampled bodies: every input with the workflow left to the
\* classification, the two inputs that classify as chat-first with every
\* workflow value, and one body with OwnCodeContext per workflow
AllRequests ==
    {ProcessBody(i, c, x, "auto") : i \in Inputs, c \in ConversationIds, x \in Contexts}
    \cup {ProcessBody(i, c, x, w) : i \in {InHello, InWrite}, c \in ConversationIds,
                                    x \in Contexts, w \in Workflows}
    \cup {ProcessBody(InWrite, "c1", OwnCodeContext, w) : w \in WorkflowKinds}

\* the bodies of the calls that overlap with the call under study
BackgroundRequests ==
    { ProcessBody(InHello, "c1", [conversationId |-> "c1", userId |-> "u1"], "auto") }

(* -------------------- Code and Reasoning agents ------------------------ *)
\* results of CodeAgent.process: code is the empty text when the result
\* carries no code
CodeOutcomes ==
    { [response |-> TextCode, code |-> TextCode, needsValidation |-> TRUE],
      [response |-> TextCode, code |-> <<>>, needsValidation |-> FALSE] }

\* results of ReasoningAgent.process
ReasoningOutcomes ==
    { [response |-> TextAnalysis, needsImplementation |-> TRUE,
       implementationRequest |-> InWrite],
      [response |-> TextAnalysis, needsImplementation |-> FALSE,
       implementationRequest |-> <<>>] }

AgentErrors == {"GenerationFailed", "Timeout"}

(* ------------------- the text analyses, tabulated --------------------- *)
\* The texts the Chat agent is called with: the request inputs and the
\* inputs the workflows derive for their Chat steps.  What the agent and
\* the orchestrator compute from a text alone is tabulated over them.
ChatInputs ==
    Inputs \cup {ComprehensiveInput}
           \cup {ExplainPrefix \o o.response : o \in ReasoningOutcomes}
           \cup {FriendlyPrefix \o o.response : o \in ReasoningOutcomes}

ChatRoles == {"default", "interpreter", "synthesizer"}

ExpertiseLevels == {"beginner", "intermediate", "expert"}

\* the texts generateResponse can return
ResponseTexts == {postProcessResponse([text |-> t]).text : t \in ModelTexts}

WorkflowTable == [i \in Inputs |-> determineWorkflow(i)]

\* determineResponseStrategy reads the expertise of context.userProfile only
StrategyTable ==
    [i \in ChatInputs, role \in ChatRoles, e \in ExpertiseLevels |->
        determineResponseStrategy(i, [userProfile |-> [expertise |-> e]], role)]

SignalsTable == [i \in ChatInputs |-> ProfileSignals(i)]

TopicsTable == [i \in ChatInputs, t \in ResponseTexts |-> extractTopics(i \o <<" ">> \o t)]

TasksTable == [i \in ChatInputs |-> extractTasks(i)]

(* ------------------------------- state --------------------------------- *)
VARIABLES
    conversations,        \* OrchestratorService.conversations: the registered ids
    history,              \* ConversationManager: id -> turns
    contextStore,         \* ContextManager: id -> context
    calls,                \* the processRequest activations, by requestId
    metrics,              \* BaseAgent.metrics of the three agents
    userProfiles,         \* ChatAgent.userProfiles
    conversationContext,  \* ChatAgent.conversationContext
    appendedBy,           \* history variable: id -> requestId of each turn
    sample                \* what the specifications of single components
                          \* keep: the input under classification
                          \* (SpecClassify), the last context request
                          \* (SpecContext), the Chat agent call in flight
                          \* (SpecChat), the ModelManager's active models
                          \* and its last generate (SpecModels), the
                          \* activation of BaseAgent.retry (SpecRetry),
                          \* the active models and the loads awaiting
                          \* their provider (SpecLoading)

vars == <<conversations, history, contextStore, calls, metrics, userProfiles,
          conversationContext, appendedBy, sample>>

\* sample before a classification is under study
NoSample == [input |-> <<>>, workflow |-> "", verdict |-> "", actual |-> ""]

AgentTypes == {"chat", "code", "reasoning"}

NoResult ==
    [response |-> <<>>, workflow |-> "", conversationId |-> "",
     metadata |-> [workflow |-> "", steps |-> <<>>, agents |-> EmptyContext]]

IdleCall ==
    [pc |-> "idle", input |-> <<>>, conversationId |-> "", workflow |-> "",
     actualWorkflow |-> "", context |-> EmptyContext, inv |-> <<>>,
     result |-> NoResult, error |-> ""]

\* BaseAgent constructor
NewMetrics == [totalRequests |-> 0, successfulRequests |-> 0, failedRequests |-> 0]

\* BaseAgent.updateMetrics (the response times are left out)
updateMetrics(m, success) ==
    [totalRequests |-> m.totalRequests + 1,
     successfulRequests |-> m.successfulRequests + (IF success THEN 1 ELSE 0),
     failedRequests |-> m.failedRequests + (IF success THEN 0 ELSE 1)]

(* ------------------- OrchestratorService: workflows -------------------- *)
\* The workflow functions are async: each is written as the step it takes
\* given `results`, the agent results it has awaited so far, in order.
Request(agent, role, input, context, conversation, model) ==
    [agent |-> agent, role |-> role, input |-> input, context |-> context,
     conversation |-> conversation, model |-> model]

Invoke(requests) == [kind |-> "invoke", requests |-> requests]

Return(response, workflow, steps, agents) ==
    [kind |-> "return",
     result |-> [response |-> response,
                 metadata |-> [workflow |-> workflow, steps |-> steps,
                               agents |-> agents]]]

Throw(error) == [kind |-> "throw", error |-> error]

\* x || y on texts
OrElse(x, y) == IF x # <<>> THEN x ELSE y

\* `${x}` of a text that may be absent
Template(x) == IF x # <<>> THEN x ELSE UndefinedText

\* the Code agent is called whatever the Chat agent answered, and left
\* out of the report
executeChatFirstWorkflowAlwaysCode(input, conversation, context, config, results) ==
    IF Len(results) = 0
    THEN Invoke(<<Request("chat", "default", input, context, conversation,
                          config.chatModel)>>)
    ELSE IF Len(results) = 1
    THEN Invoke(<<Request("code", "default", input, context, <<>>, config.codeModel)>>)
    ELSE Return(results[1].response, "chat-first", <<"chat">>,
                [chat |-> results[1].metadata])

\* the Reasoning agent is called as soon as the Chat agent asks for
\* reasoning and for no code
executeChatFirstWorkflowReasoning(input, conversation, context, config, results) ==
    IF Len(results) = 0
    THEN Invoke(<<Request("chat", "default", input, context, conversation,
                          config.chatModel)>>)
    ELSE LET chatResult == results[1] IN
    IF Len(results) = 1
    THEN IF chatResult.needsCode
         THEN Invoke(<<Request("code", "default", OrElse(chatResult.codeRequest, input),
                               Spread(context, [chatContext |-> chatResult.context]),
                               <<>>, config.codeModel)>>)
         ELSE IF chatResult.needsReasoning
         THEN Invoke(<<Request("reasoning", "default",
                               OrElse(chatResult.reasoningRequest, input),
                               Spread(context, [chatContext |-> chatResult.context]),
                               <<>>, config.reasoningModel)>>)
         ELSE Return(chatResult.response, "chat-first", <<"chat">>,
                     [chat |-> chatResult.metadata])
    ELSE IF Len(results) = 2 /\ ~chatResult.needsCode
    THEN Return(combineResponses(<<chatResult, results[2]>>), "chat-first",
                <<"chat", "reasoning">>,
                [chat |-> chatResult.metadata, reasoning |-> results[2].metadata])
    ELSE LET codeResult == results[2] IN
    IF Len(results) = 2
    THEN IF codeResult.needsValidation
         THEN Invoke(<<Request("reasoning", "default",
                               ValidatePrefix \o Template(codeResult.code),
                               Spread(context, [codeContext |-> codeResult.context]),
                               <<>>, config.reasoningModel)>>)
         ELSE Return(combineResponses(<<chatResult, codeResult>>), "chat-first",
                     <<"chat", "code">>,
                     [chat |-> chatResult.metadata, code |-> codeResult.metadata])
    ELSE LET reasoningResult == results[3] IN
         Return(combineResponses(<<chatResult, codeResult, reasoningResult>>),
                "chat-first", <<"chat", "code", "reasoning">>,
                [chat |-> chatResult.metadata, code |-> codeResult.metadata,
                 reasoning |-> reasoningResult.metadata])

executeChatFirstWorkflow(input, conversation, context, config, results) ==
    IF Len(results) = 0
    THEN Invoke(<<Request("chat", "default", input, context, conversation,
                          config.chatModel)>>)
    ELSE LET chatResult == results[1] IN
    IF Len(results) = 1
    THEN IF chatResult.needsCode
         THEN Invoke(<<Request("code", "default", OrElse(chatResult.codeRequest, input),
                               Spread(context, [chatContext |-> chatResult.context]),
                               <<>>, config.codeModel)>>)
         ELSE Return(chatResult.response, "chat-first", <<"chat">>,
                     [chat |-> chatResult.metadata])
    ELSE LET codeResult == results[2] IN
    IF Len(results) = 2
    THEN IF codeResult.needsValidation
         THEN Invoke(<<Request("reasoning", "default",
                               ValidatePrefix \o Template(codeResult.code),
                               Spread(context, [codeContext |-> codeResult.context]),
                               <<>>, config.reasoningModel)>>)
         ELSE Return(combineResponses(<<chatResult, codeResult>>), "chat-first",
                     <<"chat", "code">>,
                     [chat |-> chatResult.metadata, code |-> codeResult.metadata])
    ELSE LET reasoningResult == results[3] IN
         Return(combineResponses(<<chatResult, codeResult, reasoningResult>>),
                "chat-first", <<"chat", "code", "reasoning">>,
                [chat |-> chatResult.metadata, code |-> codeResult.metadata,
                 reasoning |-> reasoningResult.metadata])

\* the Reasoning agent is left out when the code asks for no validation
executeCodeFirstWorkflowSkipping(input, conversation, context, config, results) ==
    IF Len(results) = 0
    THEN Invoke(<<Request("code", "default", input, context, conversation,
                          config.codeModel)>>)
    ELSE LET codeResult == results[1] IN
    IF Len(results) = 1
    THEN IF codeResult.needsValidation
         THEN Invoke(<<Request("reasoning", "default",
                          AnalyzePrefix \o OrElse(codeResult.code, codeResult.response),
                          Spread(context, [codeContext |-> codeResult.context]),
                          <<>>, config.reasoningModel)>>)
         ELSE Invoke(<<Request("chat", "default", input,
                          Spread(context, [codeContext |-> codeResult.context]),
                          <<>>, config.chatModel)>>)
    ELSE IF Len(results) = 2 /\ ~codeResult.needsValidation
    THEN Return(combineResponses(<<codeResult, results[2]>>),
                "code-first", <<"code", "chat">>,
                [code |-> codeResult.metadata, chat |-> results[2].metadata])
    ELSE LET reasoningResult == results[2] IN
    IF Len(results) = 2
    THEN Invoke(<<Request("chat", "default", ExplainPrefix \o reasoningResult.response,
                          Spread(context, [codeContext |-> codeResult.context,
                                           reasoningContext |-> reasoningResult.context]),
                          <<>>, config.chatModel)>>)
    ELSE LET chatResult == results[3] IN
         Return(combineResponses(<<codeResult, reasoningResult, chatResult>>),
                "code-first", <<"code", "reasoning", "chat">>,
                [code |-> codeResult.metadata, reasoning |-> reasoningResult.metadata,
                 chat |-> chatResult.metadata])

\* the Reasoning agent is given the seeded key alone
executeCodeFirstWorkflowSeedOnly(input, conversation, context, config, results) ==
    IF Len(results) = 0
    THEN Invoke(<<Request("code", "default", input, context, conversation,
                          config.codeModel)>>)
    ELSE LET codeResult == results[1] IN
    IF Len(results) = 1
    THEN Invoke(<<Request("reasoning", "default",
                          AnalyzePrefix \o OrElse(codeResult.code, codeResult.response),
                          [codeContext |-> codeResult.context],
                          <<>>, config.reasoningModel)>>)
    ELSE LET reasoningResult == results[2] IN
    IF Len(results) = 2
    THEN Invoke(<<Request("chat", "default", ExplainPrefix \o reasoningResult.response,
                          Spread(context, [codeContext |-> codeResult.context,
                                           reasoningContext |-> reasoningResult.context]),
                          <<>>, config.chatModel)>>)
    ELSE LET chatResult == results[3] IN
         Return(combineResponses(<<codeResult, reasoningResult, chatResult>>),
                "code-first", <<"code", "reasoning", "chat">>,
                [code |-> codeResult.metadata, reasoning |-> reasoningResult.metadata,
                 chat |-> chatResult.metadata])

\* the Code and the Reasoning agent are called together
executeCodeFirstWorkflowFanOut(input, conversation, context, config, results) ==
    IF Len(results) = 0
    THEN Invoke(<<Request("code", "default", input, context, conversation,
                          config.codeModel),
                  Request("reasoning", "default", AnalyzePrefix \o input, context,
                          <<>>, config.reasoningModel)>>)
    ELSE LET codeResult == results[1]
             reasoningResult == results[2] IN
    IF Len(results) = 2
    THEN Invoke(<<Request("chat", "default", ExplainPrefix \o reasoningResult.response,
                          Spread(context, [codeContext |-> codeResult.context,
                                           reasoningContext |-> reasoningResult.context]),
                          <<>>, config.chatModel)>>)
    ELSE LET chatResult == results[3] IN
         Return(combineResponses(<<codeResult, reasoningResult, chatResult>>),
                "code-first", <<"code", "reasoning", "chat">>,
                [code |-> codeResult.metadata, reasoning |-> reasoningResult.metadata,
                 chat |-> chatResult.metadata])

executeCodeFirstWorkflow(input, conversation, context, config, results) ==
    IF Len(results) = 0
    THEN Invoke(<<Request("code", "default", input, context, conversation,
                          config.codeModel)>>)
    ELSE LET codeResult == results[1] IN
    IF Len(results) = 1
    THEN Invoke(<<Request("reasoning", "default",
                          AnalyzePrefix \o OrElse(codeResult.code, codeResult.response),
                          Spread(context, [codeContext |-> codeResult.context]),
                          <<>>, config.reasoningModel)>>)
    ELSE LET reasoningResult == results[2] IN
    IF Len(results) = 2
    THEN Invoke(<<Request("chat", "default", ExplainPrefix \o reasoningResult.response,
                          Spread(context, [codeContext |-> codeResult.context,
                                           reasoningContext |-> reasoningResult.context]),
                          <<>>, config.chatModel)>>)
    ELSE LET chatResult == results[3] IN
         Return(combineResponses(<<codeResult, reasoningResult, chatResult>>),
                "code-first", <<"code", "reasoning", "chat">>,
                [code |-> codeResult.metadata, reasoning |-> reasoningResult.metadata,
                 chat |-> chatResult.metadata])

\* the run ends with the Code agent when an implementation was asked for
executeReasoningFirstWorkflowNoSynthesis(input, conversation, context, config, results) ==
    IF Len(results) = 0
    THEN Invoke(<<Request("reasoning", "default", input, context, conversation,
                          config.reasoningModel)>>)
    ELSE LET reasoningResult == results[1] IN
    IF Len(results) = 1
    THEN IF reasoningResult.needsImplementation
         THEN Invoke(<<Request("code", "default",
                               OrElse(reasoningResult.implementationRequest, input),
                               Spread(context,
                                      [reasoningContext |-> reasoningResult.context]),
                               <<>>, config.codeModel)>>)
         ELSE Invoke(<<Request("chat", "default",
                               FriendlyPrefix \o reasoningResult.response,
                               Spread(context,
                                      [reasoningContext |-> reasoningResult.context]),
                               <<>>, config.chatModel)>>)
    ELSE IF reasoningResult.needsImplementation
    THEN Return(combineResponses(<<reasoningResult, results[2]>>),
                "reasoning-first", <<"reasoning", "code">>,
                [reasoning |-> reasoningResult.metadata, code |-> results[2].metadata])
    ELSE Return(combineResponses(<<reasoningResult, results[2]>>),
                "reasoning-first", <<"reasoning", "chat">>,
                [reasoning |-> reasoningResult.metadata, chat |-> results[2].metadata])

executeReasoningFirstWorkflow(input, conversation, context, config, results) ==
    IF Len(results) = 0
    THEN Invoke(<<Request("reasoning", "default", input, context, conversation,
                          config.reasoningModel)>>)
    ELSE LET reasoningResult == results[1] IN
    IF Len(results) = 1
    THEN IF reasoningResult.needsImplementation
         THEN Invoke(<<Request("code", "default",
                               OrElse(reasoningResult.implementationRequest, input),
                               Spread(context,
                                      [reasoningContext |-> reasoningResult.context]),
                               <<>>, config.codeModel)>>)
         ELSE Invoke(<<Request("chat", "default",
                               FriendlyPrefix \o reasoningResult.response,
                               Spread(context,
                                      [reasoningContext |-> reasoningResult.context]),
                               <<>>, config.chatModel)>>)
    ELSE IF reasoningResult.needsImplementation
    THEN LET codeResult == results[2] IN
         IF Len(results) = 2
         THEN Invoke(<<Request("chat", "default", ComprehensiveInput,
                               Spread(context,
                                      [reasoningContext |-> reasoningResult.context,
                                       codeContext |-> codeResult.context]),
                               <<>>, config.chatModel)>>)
         ELSE LET chatResult == results[3] IN
              Return(combineResponses(<<reasoningResult, codeResult, chatResult>>),
                     "reasoning-first", <<"reasoning", "code", "chat">>,
                     [reasoning |-> reasoningResult.metadata,
                      code |-> codeResult.metadata, chat |-> chatResult.metadata])
    ELSE LET chatResult == results[2] IN
         Return(combineResponses(<<reasoningResult, chatResult>>),
                "reasoning-first", <<"reasoning", "chat">>,
                [reasoning |-> reasoningResult.metadata, chat |-> chatResult.metadata])

\* the three results are joined and no synthesis call is made
executeCollaborativeWorkflowJoined(input, conversation, context, config, results) ==
    IF Len(results) = 0
    THEN Invoke(<<Request("chat", "interpreter", input, context, conversation,
                          config.chatModel),
                  Request("code", "implementer", input, context, conversation,
                          config.codeModel),
                  Request("reasoning", "analyzer", input, context, conversation,
                          config.reasoningModel)>>)
    ELSE Return(combineResponses(results), "collaborative",
                <<"parallel-processing", "synthesis">>,
                [chat |-> results[1].metadata, code |-> results[2].metadata,
                 reasoning |-> results[3].metadata])

\* Promise.all of the three role-tagged calls, then the synthesis call
executeCollaborativeWorkflow(input, conversation, context, config, results) ==
    IF Len(results) = 0
    THEN Invoke(<<Request("chat", "interpreter", input, context, conversation,
                          config.chatModel),
                  Request("code", "implementer", input, context, conversation,
                          config.codeModel),
                  Request("reasoning", "analyzer", input, context, conversation,
                          config.reasoningModel)>>)
    ELSE LET chatResult == results[1]
             codeResult == results[2]
             reasoningResult == results[3]
         IN
    IF Len(results) = 3
    THEN Invoke(<<Request("reasoning", "synthesizer", SynthesizeInput,
                          Spread(context,
                                 [chatPerspective |-> chatResult.response,
                                  codePerspective |-> codeResult.response,
                                  reasoningPerspective |-> reasoningResult.response]),
                          <<>>, config.reasoningModel)>>)
    ELSE LET synthesisResult == results[4] IN
         Return(synthesisResult.response, "collaborative",
                <<"parallel-processing", "synthesis">>,
                [chat |-> chatResult.metadata, code |-> codeResult.metadata,
                 reasoning |-> reasoningResult.metadata,
                 synthesis |-> synthesisResult.metadata])

\* a workflow that is not known runs as chat-first
executeWorkflowWithDefault(workflow, input, conversation, context, results) ==
    CASE workflow = "code-first" ->
            executeCodeFirstWorkflow(input, conversation, context, workflowConfig, results)
      [] workflow = "reasoning-first" ->
            executeReasoningFirstWorkflow(input, conversation, context, workflowConfig,
                                          results)
      [] workflow = "collaborative" ->
            executeCollaborativeWorkflow(input, conversation, context, workflowConfig,
                                         results)
      [] OTHER ->
            executeChatFirstWorkflow(input, conversation, context, workflowConfig, results)

executeWorkflow(workflow, input, conversation, context, results) ==
    CASE workflow = "chat-first" ->
            executeChatFirstWorkflow(input, conversation, context, workflowConfig, results)
      [] workflow = "code-first" ->
            executeCodeFirstWorkflow(input, conversation, context, workflowConfig, results)
      [] workflow = "reasoning-first" ->
            executeReasoningFirstWorkflow(input, conversation, context, workflowConfig,
                                          results)
      [] workflow = "collaborative" ->
            executeCollaborativeWorkflow(input, conversation, context, workflowConfig,
                                         results)
      [] OTHER -> Throw("UnknownWorkflow")

(* --------------------------- agent invocations ------------------------- *)
\* ChatAgent.process up to the await of modelManager.generate: buildContext
\* (which updates the user profile), determineResponseStrategy and the
\* choice of the system prompt in generateResponse
ChatInvocation(request, requestId, profiles, convContext) ==
    LET enhanced == buildContext(request.input, request.conversation,
                                 request.context, requestId, convContext)
        view == Spread(enhanced,
                       [userProfile |-> profiles[UserIdOf(request.context)]])
        strategy == StrategyTable[request.input, request.role, view.userProfile.expertise]
    IN  [agent |-> "chat", role |-> request.role, input |-> request.input,
         context |-> request.context, conversation |-> request.conversation,
         model |-> request.model, status |-> "running", enhanced |-> enhanced,
         strategy |-> strategy, systemPrompt |-> selectSystemPrompt(strategy)]

\* CodeAgent.process and ReasoningAgent.process, called
OtherInvocation(request) ==
    [agent |-> request.agent, role |-> request.role, input |-> request.input,
     context |-> request.context, conversation |-> request.conversation,
     model |-> request.model, status |-> "running"]

\* this.userProfiles after the agents of `requests` were called
ProfilesAfterInvoke(requests, profiles) ==
    LET F[i \in 0..Len(requests)] ==
            IF i = 0 THEN profiles
            ELSE IF requests[i].agent = "chat"
                 THEN ProfilesAfterBuild(F[i - 1], requests[i].input, requests[i].context,
                                         SignalsTable[requests[i].input])
                 ELSE F[i - 1]
    IN  F[Len(requests)]

Invocations(requests, requestId, profiles, convContext) ==
    [i \in DOMAIN requests |->
        IF requests[i].agent = "chat"
        THEN ChatInvocation(requests[i], requestId,
                            ProfilesAfterInvoke(SubSeq(requests, 1, i), profiles),
                            convContext)
        ELSE OtherInvocation(requests[i])]

\* ChatAgent.process after generateResponse returned `response`
ChatResult(inv, response) ==
    [response |-> response.text, context |-> inv.enhanced,
     strategy |-> inv.strategy.type, needsCode |-> inv.strategy.needsCode,
     needsReasoning |-> inv.strategy.needsReasoning,
     codeRequest |-> inv.strategy.codeRequest,
     reasoningRequest |-> inv.strategy.reasoningRequest,
     metadata |-> [model |-> inv.model, strategy |-> inv.strategy.type,
                   confidence |-> inv.strategy.confidence]]

\* the AgentResult of the Code and the Reasoning agent: the sampled outcome,
\* the request's context passed through, and the agent's metadata
OtherResult(inv, outcome) ==
    Spread(outcome, [context |-> inv.context,
                     metadata |-> [model |-> inv.model, agent |-> inv.agent]])

(* ---------------------- OrchestratorService: calls --------------------- *)
\* what processRequest does once executeWorkflow took `step`
\*   invoke: the call awaits the new agent calls
\*   return: the two addMessage calls and the returned object
\*   throw:  the call fails
AfterStep(c, step, requestId, profiles, convContext) ==
    IF step.kind = "invoke"
    THEN [c EXCEPT !.pc = "running",
                   !.inv = @ \o Invocations(step.requests, requestId, profiles,
                                            convContext)]
    ELSE IF step.kind = "return"
    THEN [c EXCEPT !.pc = "done",
                   !.result = [response |-> step.result.response,
                               workflow |-> c.actualWorkflow,
                               conversationId |-> c.conversationId,
                               metadata |-> step.result.metadata]]
    ELSE [c EXCEPT !.pc = "failed", !.error = step.error]

UserTurn(c) == [type |-> "user", content |-> c.input]

AssistantTurn(c, result) ==
    [type |-> "assistant", content |-> result.response,
     workflow |-> c.actualWorkflow, metadata |-> result.metadata]

\* ConversationManager.addMessage
addMessage(hist, id, message) == [hist EXCEPT ![id] = Append(@, message)]

\* the two writes in the opposite order
HistoryAfterSwapped(hist, c, step) ==
    IF step.kind = "return"
    THEN addMessage(addMessage(hist, c.conversationId, AssistantTurn(c, step.result)),
                    c.conversationId, UserTurn(c))
    ELSE hist

\* processRequest, lines "Update conversation history": the writes to the
\* conversation store when the call's workflow took `step`
HistoryAfter(hist, c, step) ==
    IF step.kind = "return"
    THEN addMessage(addMessage(hist, c.conversationId, UserTurn(c)),
                    c.conversationId, AssistantTurn(c, step.result))
    ELSE hist

OwnersAfter(owners, c, step, requestId) ==
    IF step.kind = "return"
    THEN [owners EXCEPT ![c.conversationId] = @ \o <<requestId, requestId>>]
    ELSE owners

\* this.userProfiles after the step
ProfilesAfterStep(profiles, step) ==
    IF step.kind = "invoke" THEN ProfilesAfterInvoke(step.requests, profiles)
    ELSE profiles

\* the results a call has awaited; the workflow is resumed only when no
\* agent call of it is pending (Promise.all in the collaborative workflow)
Results(c) == [i \in DOMAIN c.inv |-> c.inv[i].out]

Settled(c) == \A i \in DOMAIN c.inv : c.inv[i].status = "ok"

NoStep == [kind |-> "wait"]

\* the step the call takes after one of its agent calls returned
Resume(c) ==
    IF c.pc = "running" /\ Settled(c)
    THEN executeWorkflow(c.actualWorkflow, c.input, history[c.conversationId],
                         c.context, Results(c))
    ELSE NoStep

AfterResume(c, step, requestId, profiles, convContext) ==
    IF step.kind = "wait" THEN c
    ELSE AfterStep(c, step, requestId, profiles, convContext)

\* ConversationManager.createConversation and ContextManager.updateContext
createConversation(hist, id) == [i \in DOMAIN hist \cup {id} |-> IF i = id THEN <<>> ELSE hist[i]]

updateContext(store, id, fragment) ==
    [i \in DOMAIN store \cup {id} |->
        IF i = id THEN Spread(IF id \in DOMAIN store THEN store[id] ELSE EmptyContext,
                              fragment)
        ELSE store[i]]

\* the workflow name is checked before the conversation is looked up
processRequestCheckingWorkflowFirst(k, input, conversationId, context, workflow) ==
    /\ calls[k].pc = "idle"
    /\ k > 1 => calls[k - 1].pc # "idle"
    /\ LET actualWorkflow == IF workflow = "auto" THEN WorkflowTable[input]
                             ELSE workflow
           rejected == actualWorkflow \notin WorkflowKinds
           known == conversationId \in conversations \/ rejected
           hist == IF known THEN history ELSE createConversation(history, conversationId)
           owners == IF known THEN appendedBy
                     ELSE createConversation(appendedBy, conversationId)
           c == [IdleCall EXCEPT !.input = input, !.conversationId = conversationId,
                                 !.workflow = workflow, !.context = context,
                                 !.actualWorkflow = actualWorkflow]
           step == executeWorkflow(actualWorkflow, input,
                                   IF rejected THEN <<>> ELSE hist[conversationId],
                                   context, <<>>)
       IN  /\ conversations' = IF rejected THEN conversations
                               ELSE conversations \cup {conversationId}
           /\ contextStore' = IF rejected THEN contextStore
                              ELSE updateContext(contextStore, conversationId, context)
           /\ history' = hist
           /\ appendedBy' = owners
           /\ userProfiles' = ProfilesAfterStep(userProfiles, step)
           /\ calls' = [calls EXCEPT ![k] = AfterStep(c, step, k, userProfiles',
                                                      conversationContext)]
    /\ UNCHANGED <<metrics, conversationContext, sample>>

\* processRequest up to its first await of an agent
processRequest(k, input, conversationId, context, workflow) ==
    /\ calls[k].pc = "idle"
    /\ k > 1 => calls[k - 1].pc # "idle"
    /\ LET known == conversationId \in conversations
           hist == IF known THEN history ELSE createConversation(history, conversationId)
           owners == IF known THEN appendedBy
                     ELSE createConversation(appendedBy, conversationId)
           actualWorkflow == IF workflow = "auto" THEN WorkflowTable[input]
                             ELSE workflow
           c == [IdleCall EXCEPT !.input = input, !.conversationId = conversationId,
                                 !.workflow = workflow, !.context = context,
                                 !.actualWorkflow = actualWorkflow]
           step == executeWorkflow(actualWorkflow, input, hist[conversationId],
                                   context, <<>>)
       IN  /\ conversations' = conversations \cup {conversationId}
           /\ contextStore' = updateContext(contextStore, conversationId, context)
           /\ history' = hist
           /\ appendedBy' = owners
           /\ userProfiles' = ProfilesAfterStep(userProfiles, step)
           /\ calls' = [calls EXCEPT ![k] = AfterStep(c, step, k, userProfiles',
                                                      conversationContext)]
    /\ UNCHANGED <<metrics, conversationContext, sample>>

\* the agent call j of call k is pending
Pending(k, j, agent) ==
    /\ j \in DOMAIN calls[k].inv
    /\ calls[k].inv[j].agent = agent
    /\ calls[k].inv[j].status = "running"

\* the call record, the stores and the chat profiles after agent call j of
\* call k returned `out`
AgentReturned(k, j, out, convContext) ==
    LET c == [calls[k] EXCEPT !.inv[j] = Spread(@, [status |-> "ok", out |-> out])]
        step == Resume(c)
    IN  /\ userProfiles' = ProfilesAfterStep(userProfiles, step)
        /\ calls' = [calls EXCEPT ![k] = AfterResume(c, step, k, userProfiles',
                                                     convContext)]
        /\ history' = HistoryAfter(history, c, step)
        /\ appendedBy' = OwnersAfter(appendedBy, c, step, k)

\* a stock result standing in for the result of a failed agent call
RejectedOut ==
    [response |-> TextAnalysis, context |-> EmptyContext, metadata |-> EmptyContext,
     code |-> <<>>, needsCode |-> FALSE, needsValidation |-> FALSE,
     needsImplementation |-> FALSE, implementationRequest |-> <<>>,
     codeRequest |-> <<>>]

\* the workflow waits for its agent calls to settle and goes on, with the
\* stock result in the place of a failure
AgentThrewSettled(k, j, error) ==
    LET c == [calls[k] EXCEPT !.inv[j] = Spread(@, [status |-> "failed",
                                                    out |-> RejectedOut])]
        step == IF c.pc = "running" /\ \A i \in DOMAIN c.inv : c.inv[i].status # "running"
                THEN executeWorkflow(c.actualWorkflow, c.input,
                                     history[c.conversationId], c.context, Results(c))
                ELSE NoStep
    IN  /\ userProfiles' = ProfilesAfterStep(userProfiles, step)
        /\ calls' = [calls EXCEPT ![k] = AfterResume(c, step, k, userProfiles',
                                                     conversationContext)]
        /\ history' = HistoryAfter(history, c, step)
        /\ appendedBy' = OwnersAfter(appendedBy, c, step, k)

\* the failed agent call is made again
AgentThrewRetried(k, j, error) ==
    /\ calls' = [calls EXCEPT ![k].inv = [@ EXCEPT ![j].status = "failed"]
                                          \o <<[@[j] EXCEPT !.status = "running"]>>]
    /\ UNCHANGED <<history, appendedBy, userProfiles>>

\* the user turn is written although the workflow failed
AgentThrewKeepingUserTurn(k, j, error) ==
    LET awaiting == calls[k].pc = "running"
        id == calls[k].conversationId
    IN  /\ calls' = [calls EXCEPT ![k].inv[j].status = "failed",
                                  ![k].pc = IF @ = "running" THEN "failed" ELSE @,
                                  ![k].error = IF awaiting THEN error ELSE @]
        /\ history' = IF awaiting THEN addMessage(history, id, UserTurn(calls[k]))
                       ELSE history
        /\ appendedBy' = IF awaiting THEN [appendedBy EXCEPT ![id] = Append(@, k)]
                          ELSE appendedBy
        /\ UNCHANGED userProfiles

\* agent call j of call k threw: the awaiting workflow, if any, fails
AgentThrew(k, j, error) ==
    /\ calls' = [calls EXCEPT ![k].inv[j].status = "failed",
                              ![k].pc = IF @ = "running" THEN "failed" ELSE @,
                              ![k].error = IF calls[k].pc = "running" THEN error ELSE @]
    /\ UNCHANGED <<history, appendedBy, userProfiles>>

\* modelManager.generate resolved with `text` for a Chat agent call:
\* postProcessResponse, updateConversationContext, return; then the caller
ChatAgentReturns(k, j, text) ==
    /\ Pending(k, j, "chat")
    /\ LET inv == calls[k].inv[j]
           response == postProcessResponse([text |-> text])
       IN  /\ conversationContext' =
                  updateConversationContext(conversationContext, inv.enhanced,
                                            TopicsTable[inv.input, response.text],
                                            TasksTable[inv.input])
           /\ AgentReturned(k, j, ChatResult(inv, response), conversationContext')
    /\ UNCHANGED <<conversations, contextStore, metrics, sample>>

\* modelManager.generate rejected: ChatAgent.process logs and rethrows
ChatAgentFails(k, j) ==
    /\ Pending(k, j, "chat")
    /\ AgentThrew(k, j, "GenerationFailed")
    /\ UNCHANGED <<conversations, contextStore, metrics, conversationContext, sample>>

\* the Code or the Reasoning agent returns a result and counts the call
OtherAgentReturns(k, j, agent, outcome) ==
    /\ Pending(k, j, agent)
    /\ metrics' = [metrics EXCEPT ![agent] = updateMetrics(@, TRUE)]
    /\ AgentReturned(k, j, OtherResult(calls[k].inv[j], outcome), conversationContext)
    /\ UNCHANGED <<conversations, contextStore, conversationContext, sample>>

\* the Code or the Reasoning agent fails (generation failure or timeout)
OtherAgentFails(k, j, agent, error) ==
    /\ Pending(k, j, agent)
    /\ metrics' = [metrics EXCEPT ![agent] = updateMetrics(@, FALSE)]
    /\ AgentThrew(k, j, error)
    /\ UNCHANGED <<conversations, contextStore, conversationContext, sample>>

CodeAgentReturns(k, j) == \E o \in CodeOutcomes : OtherAgentReturns(k, j, "code", o)
CodeAgentFails(k, j) == \E e \in AgentErrors : OtherAgentFails(k, j, "code", e)
ReasoningAgentReturns(k, j) ==
    \E o \in ReasoningOutcomes : OtherAgentReturns(k, j, "reasoning", o)
ReasoningAgentFails(k, j) == \E e \in AgentErrors : OtherAgentFails(k, j, "reasoning", e)

(* ---------------------------- specification ---------------------------- *)
Init ==
    /\ conversations = {}
    /\ history = [i \in {} |-> <<>>]
    /\ contextStore = [i \in {} |-> EmptyContext]
    /\ calls = [k \in Calls |-> IdleCall]
    /\ metrics = [a \in AgentTypes |-> NewMetrics]
    /\ userProfiles = [u \in {} |-> NewUserProfile]
    /\ conversationContext = [i \in {} |-> NewConversationContext]
    /\ appendedBy = [i \in {} |-> <<>>]
    /\ sample = NoSample

\* POST /process with one of `requests` as its body
Process(k, requests) ==
    \E r \in requests :
        processRequest(k, r.input, r.conversationId, r.context, r.workflow)

\* the body call k was issued with
BodyOf(c) == ProcessBody(c.input, c.conversationId, c.context, c.workflow)

\* One call of a behaviour takes any sampled body; the calls that overlap
\* with it take the bodies of BackgroundRequests.
OthersInBackground ==
    \A j \in Calls : calls[j].pc = "idle" \/ BodyOf(calls[j]) \in BackgroundRequests

Start ==
    \E k \in Calls :
        Process(k, IF OthersInBackground THEN AllRequests ELSE BackgroundRequests)

ChatReturns == \E k \in Calls, t \in ModelTexts : \E j \in DOMAIN calls[k].inv :
                   ChatAgentReturns(k, j, t)
ChatFails == \E k \in Calls : \E j \in DOMAIN calls[k].inv : ChatAgentFails(k, j)
CodeReturns == \E k \in Calls : \E j \in DOMAIN calls[k].inv : CodeAgentReturns(k, j)
CodeFails == \E k \in Calls : \E j \in DOMAIN calls[k].inv : CodeAgentFails(k, j)
ReasoningReturns == \E k \in Calls : \E j \in DOMAIN calls[k].inv : ReasoningAgentReturns(k, j)
ReasoningFails == \E k \in Calls : \E j \in DOMAIN calls[k].inv : ReasoningAgentFails(k, j)

Next ==
    \/ Start
    \/ ChatReturns
    \/ ChatFails
    \/ CodeReturns
    \/ CodeFails
    \/ ReasoningReturns
    \/ ReasoningFails

Spec == Init /\ [][Next]_vars

(* ------------------- classification of sampled inputs ------------------ *)
\* words with and without the indicators, in either case and inside
\* longer words
Phrases ==
    { <<"h", "e", "l", "l", "o">>,
      <<"D", "e", "b", "u", "g">>,
      <<"s", "h", "o", "w">>,
      <<"w", "h", "y">>,
      <<"c", "l", "a", "s", "s", "i", "c">>,
      <<"E", "v", "a", "l", "u", "a", "t", "e">>,
      <<"w", "r", "i", "t", "e">>,
      <<"i", "m", "p", "l", "e", "m", "e", "n", "t">> }

\* the texts of one to n phrases, separated by a space
RECURSIVE PhraseTexts(_)
PhraseTexts(n) ==
    IF n = 1 THEN Phrases
    ELSE LET shorter == PhraseTexts(n - 1)
         IN  shorter \cup {s \o <<" ">> \o p : s \in shorter, p \in Phrases}

PhraseInputs == PhraseTexts(MaxPhrases)

\* processRequest, "Determine workflow if auto"
SelectWorkflow(workflow, input) ==
    IF workflow = "auto" THEN determineWorkflow(input) ELSE workflow

InitClassify ==
    /\ Init!1 /\ Init!2 /\ Init!3 /\ Init!4 /\ Init!5 /\ Init!6 /\ Init!7 /\ Init!8
    /\ sample \in {[input |-> i, workflow |-> w, verdict |-> "", actual |-> ""] :
                      i \in PhraseInputs, w \in Workflows}

\* the orchestrator classifies the sampled input and selects the workflow
Classify ==
    /\ sample.actual = ""
    /\ sample' = [sample EXCEPT !.verdict = determineWorkflow(sample.input),
                                !.actual = SelectWorkflow(sample.workflow, sample.input)]
    /\ UNCHANGED <<conversations, history, contextStore, calls, metrics, userProfiles,
                   conversationContext, appendedBy>>

NextClassify == Classify

SpecClassify == InitClassify /\ [][NextClassify]_vars

(* ------------------------------ fairness ------------------------------- *)
\* The Code and the Reasoning agent settle every call within their time
\* limit.  A Chat agent call settles when modelManager.generate does, and
\* nothing obliges the model runtime to answer.
FairSpec ==
    /\ Spec
    /\ \A k \in Calls :
          /\ WF_vars(\E j \in DOMAIN calls[k].inv : CodeAgentReturns(k, j) \/ CodeAgentFails(k, j))
          /\ WF_vars(\E j \in DOMAIN calls[k].inv :
                         ReasoningAgentReturns(k, j) \/ ReasoningAgentFails(k, j))

(* ------------------------- the context routes -------------------------- *)
\* consecutive reads of one conversation id in one behaviour of SpecContext
MaxReads == 2

ContextIds == {"c1", "c2"}

\* bodies of POST /context/update
ContextFragments ==
    Contexts \cup {[currentFile |-> "f1"], [userId |-> "u2", currentFile |-> "f2"]}

\* a read that leaves a mark in the stored context
getContextMarking(store, id) ==
    [context |-> IF id \in DOMAIN store THEN store[id] ELSE EmptyContext,
     store |-> updateContext(store, id, [lastRead |-> "now"])]

\* ContextManager.getContext: the context it returns and the store it
\* leaves
getContext(store, id) ==
    [context |-> IF id \in DOMAIN store THEN store[id] ELSE EmptyContext,
     store |-> store]

\* no context request has been answered
NoRequest == [kind |-> "none", id |-> "", context |-> EmptyContext, reads |-> 0]

InitContext ==
    /\ Init!1 /\ Init!2 /\ Init!3 /\ Init!4 /\ Init!5 /\ Init!6 /\ Init!7 /\ Init!8
    /\ sample = NoRequest

\* POST /context/update
ContextUpdate ==
    \E id \in ContextIds, fragment \in ContextFragments :
        /\ contextStore' = updateContext(contextStore, id, fragment)
        /\ sample' = [kind |-> "update", id |-> id, context |-> fragment, reads |-> 0]
        /\ UNCHANGED <<conversations, history, calls, metrics, userProfiles,
                       conversationContext, appendedBy>>

\* GET /context/:conversationId; sample keeps what it answered and how
\* many reads of that id have followed one another
ContextGet ==
    \E id \in ContextIds :
        LET read == getContext(contextStore, id)
            reads == IF sample.kind = "read" /\ sample.id = id THEN sample.reads + 1
                     ELSE 1
        IN  /\ reads <= MaxReads
            /\ contextStore' = read.store
            /\ sample' = [kind |-> "read", id |-> id, context |-> read.context,
                          reads |-> reads]
            /\ UNCHANGED <<conversations, history, calls, metrics, userProfiles,
                           conversationContext, appendedBy>>

NextContext ==
    \/ ContextUpdate
    \/ ContextGet

SpecContext == InitContext /\ [][NextContext]_vars

(* ------------------------ the Chat agent route ------------------------- *)
\* calls of POST /agents/chat in one behaviour of SpecChat
MaxChatCalls == 2

InOptimize ==
    <<"O", "p", "t", "i", "m", "i", "z", "e", " ", "t", "h", "e", " ", "a",
      "i", " ", "d", "a", "t", "a", "b", "a", "s", "e">>

InShip ==
    <<"w", "e", " ", "n", "e", "e", "d", " ", "t", "o", " ", "s", "h", "i",
      "p", " ", "a", "n", "d", " ", "w", "a", "n", "t", " ", "t", "o", " ",
      "t", "e", "s", "t">>

InWhatIs ==
    <<"w", "h", "a", "t", " ", "i", "s", " ", "s", "e", "c", "u", "r", "i",
      "t", "y">>

\* bodies of POST /agents/chat; the last two lack a field
ChatBodies ==
    {[input |-> i, context |-> c] : i \in {InHello, InOptimize, InShip, InWhatIs},
                                   c \in Contexts}
    \cup {[input |-> InShip], [context |-> [conversationId |-> "c1", userId |-> "u1"]]}

\* a profile as earlier calls leave it: nine interests, nineteen questions
UsedProfile(expertise) ==
    [expertise |-> expertise, interests |-> SubSeq(techKeywords, 1, 9),
     previousQuestions |-> [i \in 1..19 |-> InHello]]

\* a conversation context as earlier calls leave it: ten topics, nine tasks
UsedConversationContext ==
    [topics |-> SubSeq(techTerms, 1, 10),
     tasks |-> [i \in 1..9 |-> [description |-> <<"s", "h", "i", "p">>,
                                status |-> "pending"]]]

\* no call of the route has been made
NoChatCall ==
    [pc |-> "idle", n |-> 0, body |-> [context |-> EmptyContext], error |-> "",
     generated |-> FALSE]

InitChat ==
    /\ Init!1 /\ Init!2 /\ Init!3 /\ Init!4 /\ Init!5 /\ Init!8
    /\ userProfiles \in
           {[u \in {} |-> NewUserProfile]}
           \cup {[u \in {"u1"} |-> UsedProfile(e)] : e \in ExpertiseLevels}
    /\ conversationContext \in
           {[i \in {} |-> NewConversationContext],
            [i \in {"c1"} |-> UsedConversationContext]}
    /\ sample = NoChatCall

\* ChatAgent.process up to the call of the model: the body is destructured,
\* input.length is read, buildContext updates the user's profile
AgentChatCalled ==
    \E body \in ChatBodies :
        /\ sample.pc # "generating"
        /\ sample.n < MaxChatCalls
        /\ IF ~Has(body, "input")
           THEN /\ sample' = [pc |-> "failed", n |-> sample.n + 1, body |-> body,
                              error |-> "TypeError", generated |-> FALSE]
                /\ UNCHANGED userProfiles
           ELSE LET context == IF Has(body, "context") THEN body.context
                               ELSE EmptyContext
                IN  /\ userProfiles' =
                           ProfilesAfterBuild(userProfiles, body.input, context,
                                              ProfileSignals(body.input))
                    /\ sample' = [pc |-> "generating", n |-> sample.n + 1,
                                  body |-> [input |-> body.input, context |-> context],
                                  error |-> "", generated |-> TRUE]
        /\ UNCHANGED <<conversations, history, contextStore, calls, metrics,
                       conversationContext, appendedBy>>

\* the model answered: postProcessResponse, updateConversationContext
AgentChatReturns ==
    \E text \in ModelTexts :
        /\ sample.pc = "generating"
        /\ LET input == sample.body.input
               response == postProcessResponse([text |-> text])
               enhanced == buildContext(input, <<>>, sample.body.context, "r1",
                                        conversationContext)
           IN  conversationContext' =
                   updateConversationContext(conversationContext, enhanced,
                       extractTopics(input \o <<" ">> \o response.text),
                       extractTasks(input))
        /\ sample' = [sample EXCEPT !.pc = "returned"]
        /\ UNCHANGED <<conversations, history, contextStore, calls, metrics,
                       userProfiles, appendedBy>>

\* the model call failed: process logs and rethrows
AgentChatFails ==
    /\ sample.pc = "generating"
    /\ sample' = [sample EXCEPT !.pc = "failed", !.error = "GenerationFailed"]
    /\ UNCHANGED <<conversations, history, contextStore, calls, metrics,
                   userProfiles, conversationContext, appendedBy>>

NextChat ==
    \/ AgentChatCalled
    \/ AgentChatReturns
    \/ AgentChatFails

SpecChat == InitChat /\ [][NextChat]_vars

(* --------------------------- the ModelManager -------------------------- *)
maxConcurrentModels == 3

\* the models that can be active, each with the provider it is loaded by
ModelCatalogue ==
    {[modelId |-> "openai-gpt-4", provider |-> "openai"],
     [modelId |-> "gemini-pro", provider |-> "gemini"],
     [modelId |-> "claude-3-opus", provider |-> "claude"],
     [modelId |-> "ollama-phi", provider |-> "ollama"],
     [modelId |-> "llama-a", provider |-> "llamacpp"],
     [modelId |-> "llama-b", provider |-> "llamacpp"]}

providers == {"llamacpp", "ollama", "openai", "gemini", "claude", "huggingface"}

LocalProviders == {"llamacpp", "ollama"}

\* what a Map lookup or a find gives when there is nothing
NoModel == [modelId |-> "undefined", provider |-> "undefined"]

\* this.activeModels is kept as the sequence of its values in insertion
\* order, every value with its key
ActiveIds(active) == {active[i].modelId : i \in DOMAIN active}

\* this.activeModels.get(modelId)
ActiveGet(active, modelId) ==
    IF modelId \in ActiveIds(active)
    THEN active[CHOOSE i \in DOMAIN active : active[i].modelId = modelId]
    ELSE NoModel

\* Array.from(this.activeModels.values()).find(m => m.provider === 'llamacpp')
FirstLlamaCpp(active) ==
    LET found == {i \in DOMAIN active : active[i].provider = "llamacpp"}
    IN  IF found = {} THEN NoModel
        ELSE active[CHOOSE i \in found : \A j \in found : i <= j]

\* a || b on models
OrModel(a, b) == IF a # NoModel THEN a ELSE b

\* defaults in which the chat role asks for gemini-pro first
getDefaultModelGeminiFirst(active, role) ==
    LET defaults ==
            [chat |-> OrModel(ActiveGet(active, "gemini-pro"),
                        OrModel(ActiveGet(active, "openai-gpt-4"), FirstLlamaCpp(active))),
             code |-> OrModel(ActiveGet(active, "openai-gpt-4"), FirstLlamaCpp(active)),
             reasoning |-> OrModel(ActiveGet(active, "claude-3-opus"),
                             OrModel(ActiveGet(active, "openai-gpt-4"),
                                     FirstLlamaCpp(active)))]
        first == IF active = <<>> THEN NoModel ELSE active[1]
    IN  OrModel(IF role \in DOMAIN defaults THEN defaults[role] ELSE NoModel, first)

getDefaultModel(active, role) ==
    LET defaults ==
            [chat |-> OrModel(ActiveGet(active, "openai-gpt-4"),
                        OrModel(ActiveGet(active, "gemini-pro"), FirstLlamaCpp(active))),
             code |-> OrModel(ActiveGet(active, "openai-gpt-4"), FirstLlamaCpp(active)),
             reasoning |-> OrModel(ActiveGet(active, "claude-3-opus"),
                             OrModel(ActiveGet(active, "openai-gpt-4"),
                                     FirstLlamaCpp(active)))]
        first == IF active = <<>> THEN NoModel ELSE active[1]
    IN  OrModel(IF role \in DOMAIN defaults THEN defaults[role] ELSE NoModel, first)

\* generate, up to the provider's answer: the model and the provider it
\* hands the prompt to, or the error it throws
generate(active, modelId, role) ==
    LET model == OrModel(ActiveGet(active, modelId), getDefaultModel(active, role))
    IN  IF model = NoModel
        THEN [status |-> "error", error |-> "Model not available", used |-> NoModel]
        ELSE IF model.provider \notin providers
        THEN [status |-> "error", error |-> "Provider not found", used |-> model]
        ELSE [status |-> "ok", error |-> "", used |-> model]

\* the model ids and roles generate is asked for; "undefined" is an
\* options object without a role
RequestedModels == {"default", "openai-gpt-4", "claude-3-opus", "llama-b"}

RequestedRoles == {"chat", "code", "reasoning", "synthesizer", "undefined"}

NoGenerate == [modelId |-> "", role |-> "", answer |-> [status |-> "none"]]

\* initialize: the hosted models whose API key is set, in the order they
\* are registered, then the model Ollama lists
InitialModels ==
    <<[modelId |-> "openai-gpt-4", provider |-> "openai"],
      [modelId |-> "gemini-pro", provider |-> "gemini"],
      [modelId |-> "claude-3-opus", provider |-> "claude"],
      [modelId |-> "ollama-phi", provider |-> "ollama"]>>

\* the entries of s whose index is in keep, in order
Keep(s, keep) ==
    LET F[i \in 0..Len(s)] ==
            IF i = 0 THEN <<>>
            ELSE IF i \in keep THEN Append(F[i - 1], s[i]) ELSE F[i - 1]
    IN  F[Len(s)]

InitModels ==
    /\ Init!1 /\ Init!2 /\ Init!3 /\ Init!4 /\ Init!5 /\ Init!6 /\ Init!7 /\ Init!8
    /\ \E available \in SUBSET DOMAIN InitialModels :
           sample = [active |-> Keep(InitialModels, available), last |-> NoGenerate]

\* loadModel: this.activeModels afterwards
loadModel(active, model) ==
    IF model.modelId \in ActiveIds(active) THEN active
    ELSE IF Cardinality({i \in DOMAIN active : active[i].provider \in LocalProviders})
            >= maxConcurrentModels
    THEN active
    ELSE Append(active, model)

\* POST /models/load
ModelLoad ==
    \E model \in ModelCatalogue :
        /\ sample' = [sample EXCEPT !.active = loadModel(@, model)]
        /\ UNCHANGED <<conversations, history, contextStore, calls, metrics,
                       userProfiles, conversationContext, appendedBy>>

\* an agent calls modelManager.generate
ModelGenerate ==
    \E modelId \in RequestedModels, role \in RequestedRoles :
        /\ sample' = [sample EXCEPT !.last =
                          [modelId |-> modelId, role |-> role,
                           answer |-> generate(sample.active, modelId, role)]]
        /\ UNCHANGED <<conversations, history, contextStore, calls, metrics,
                       userProfiles, conversationContext, appendedBy>>

NextModels ==
    \/ ModelLoad
    \/ ModelGenerate

SpecModels == InitModels /\ [][NextModels]_vars

(* --------------------------- BaseAgent.retry --------------------------- *)
\* the largest maxRetries retry is called with in SpecRetry
MaxRetries == 3

RetryDelays == {250, 500, 1000}

OperationValues == {"first", "second"}

\* Math.pow(2, i)
RECURSIVE Pow2(_)
Pow2(i) == IF i = 0 THEN 1 ELSE 2 * Pow2(i - 1)

\* retry(operation, maxRetries, delay) has been called: i is the loop
\* variable, attempts counts the calls of operation, waits lists the
\* timeouts set
RetryCalled(maxRetries, delay) ==
    [pc |-> "loop", maxRetries |-> maxRetries, delay |-> delay, i |-> 0,
     attempts |-> 0, waits |-> <<>>, succeeded |-> FALSE, value |-> "", error |-> ""]

InitRetry ==
    /\ Init!1 /\ Init!2 /\ Init!3 /\ Init!4 /\ Init!5 /\ Init!6 /\ Init!7 /\ Init!8
    /\ \E maxRetries \in 0..MaxRetries, delay \in RetryDelays :
           sample = RetryCalled(maxRetries, delay)

RetryUnchanged ==
    UNCHANGED <<conversations, history, contextStore, calls, metrics, userProfiles,
                conversationContext, appendedBy>>

\* the loop test i < maxRetries: the body calls operation; past the loop
\* the function ends without a return statement
RetryLoopTest ==
    /\ sample.pc = "loop"
    /\ sample' = IF sample.i < sample.maxRetries
                 THEN [sample EXCEPT !.pc = "awaiting", !.attempts = @ + 1]
                 ELSE [sample EXCEPT !.pc = "resolved", !.value = "undefined"]
    /\ RetryUnchanged

\* return await operation()
OperationResolves ==
    \E value \in OperationValues :
        /\ sample.pc = "awaiting"
        /\ sample' = [sample EXCEPT !.pc = "resolved", !.succeeded = TRUE,
                                    !.value = value]
        /\ RetryUnchanged

\* catch (error): rethrown in the last round, otherwise a timeout of
\* delay * 2^i is set
OperationRejects ==
    \E error \in AgentErrors :
        /\ sample.pc = "awaiting"
        /\ sample' = IF sample.i = sample.maxRetries - 1
                     THEN [sample EXCEPT !.pc = "rejected", !.error = error]
                     ELSE [sample EXCEPT !.pc = "sleeping", !.error = error,
                                         !.waits = Append(@, sample.delay * Pow2(sample.i))]
        /\ RetryUnchanged

\* the timeout fires: i++
RetryTimeout ==
    /\ sample.pc = "sleeping"
    /\ sample' = [sample EXCEPT !.pc = "loop", !.i = @ + 1]
    /\ RetryUnchanged

NextRetry ==
    \/ RetryLoopTest
    \/ OperationResolves
    \/ OperationRejects
    \/ RetryTimeout

SpecRetry == InitRetry /\ [][NextRetry]_vars

(* ------------------- ModelManager: overlapping loads ------------------- *)
\* loadModel calls that may wait for their provider at one time
MaxLoading == 2

\* the models POST /models/load is asked for in SpecLoading
LoadableModels ==
    {[modelId |-> "ollama-phi", provider |-> "ollama"],
     [modelId |-> "llama-a", provider |-> "llamacpp"],
     [modelId |-> "llama-b", provider |-> "llamacpp"],
     [modelId |-> "llama-c", provider |-> "llamacpp"],
     [modelId |-> "openai-gpt-4", provider |-> "openai"]}

\* Array.from(this.activeModels.values()).filter(model => model.type === 'local')
ActiveLocal(active) == {i \in DOMAIN active : active[i].provider \in LocalProviders}

\* loadModel up to await provider.loadModel: what the call does next
loadModelChecks(active, model) ==
    IF model.modelId \in ActiveIds(active) THEN "already_loaded"
    ELSE IF Cardinality(ActiveLocal(active)) >= maxConcurrentModels THEN "limit"
    ELSE IF model.provider \notin providers THEN "unknown"
    ELSE "load"

\* this.activeModels.set(modelId, ...): a new key goes last, a key that is
\* there keeps its place
ActiveSet(active, model) ==
    IF model.modelId \in ActiveIds(active)
    THEN [i \in DOMAIN active |->
             IF active[i].modelId = model.modelId THEN model ELSE active[i]]
    ELSE Append(active, model)

\* this.activeModels.delete(modelId)
ActiveDelete(active, modelId) ==
    Keep(active, {i \in DOMAIN active : active[i].modelId # modelId})

\* a sequence without its entry n
Without(s, n) == Keep(s, DOMAIN s \ {n})

\* the constructor: no model is active, no load is waiting for its
\* provider, nothing has been answered
InitLoading ==
    /\ Init!1 /\ Init!2 /\ Init!3 /\ Init!4 /\ Init!5 /\ Init!6 /\ Init!7 /\ Init!8
    /\ sample = [active |-> <<>>, loading |-> <<>>, answer |-> "", about |-> ""]

LoadingUnchanged ==
    UNCHANGED <<conversations, history, contextStore, calls, metrics, userProfiles,
                conversationContext, appendedBy>>

\* loadModel is called and runs to its await, or returns or throws before
LoadModelCalled ==
    \E model \in LoadableModels :
        LET next == loadModelChecks(sample.active, model) IN
        /\ next = "load" => Len(sample.loading) < MaxLoading
        /\ sample' = [sample EXCEPT
                          !.loading = IF next = "load" THEN Append(@, model) ELSE @,
                          !.answer = next, !.about = model.modelId]
        /\ LoadingUnchanged

\* provider.loadModel resolved: the model is entered into activeModels
ProviderLoaded ==
    \E n \in DOMAIN sample.loading :
        /\ sample' = [sample EXCEPT !.active = ActiveSet(@, sample.loading[n]),
                                    !.loading = Without(@, n),
                                    !.answer = "loaded",
                                    !.about = sample.loading[n].modelId]
        /\ LoadingUnchanged

\* provider.loadModel rejected: loadModel throws
ProviderLoadFailed ==
    \E n \in DOMAIN sample.loading :
        /\ sample' = [sample EXCEPT !.loading = Without(@, n),
                                    !.answer = "failed",
                                    !.about = sample.loading[n].modelId]
        /\ LoadingUnchanged

\* unloadModel: throws for a model that is not active, otherwise unloads
\* and deletes it
UnloadModelCalled ==
    \E model \in LoadableModels :
        /\ sample' = IF model.modelId \in ActiveIds(sample.active)
                     THEN [sample EXCEPT !.active = ActiveDelete(@, model.modelId),
                                         !.answer = "unloaded",
                                         !.about = model.modelId]
                     ELSE [sample EXCEPT !.answer = "not_found",
                                         !.about = model.modelId]
        /\ LoadingUnchanged

NextLoading ==
    \/ LoadModelCalled
    \/ ProviderLoaded
    \/ ProviderLoadFailed
    \/ UnloadModelCalled

SpecLoading == InitLoading /\ [][NextLoading]_vars

(* ----------------------------- properties ------------------------------ *)
\* call k returns in this step
Completes(k) == calls[k].pc = "running" /\ calls'[k].pc = "done"

\* agent call j of call k settles in this step
Settles(k, j) ==
    /\ j \in DOMAIN calls[k].inv
    /\ calls[k].inv[j].status = "running"
    /\ calls'[k].inv[j].status # "running"

\* the agents call k has called, in the order of the calls
AgentsCalled(c) == [j \in DOMAIN c.inv |-> c.inv[j].agent]

\* the turns of conversation id that call k appended
TurnsOf(k, id) ==
    IF id \in DOMAIN appendedBy
    THEN {i \in DOMAIN appendedBy[id] : appendedBy[id][i] = k}
    ELSE {}

\* C1: a process call that returns appends to its conversation exactly two
\* turns, the user turn with the call's input and then the assistant turn
\* with the returned response and the executed workflow; the turns of a
\* conversation change in no other step, and no turn is ever removed.
C1_TwoTurnsPerSuccessfulCall ==
    [][ /\ \A k \in Calls :
              Completes(k) =>
                  LET c == calls'[k]
                      id == c.conversationId
                  IN  /\ c.result.workflow = c.actualWorkflow
                      /\ history'[id] = history[id] \o
                             << [type |-> "user", content |-> c.input],
                                [type |-> "assistant", content |-> c.result.response,
                                 workflow |-> c.result.workflow,
                                 metadata |-> c.result.metadata] >>
        /\ \A id \in DOMAIN history :
              /\ id \in DOMAIN history'
              /\ history'[id] # history[id] =>
                     \E k \in Calls : Completes(k) /\ calls'[k].conversationId = id
        /\ \A id \in DOMAIN history' \ DOMAIN history : history'[id] = <<>> ]_vars

\* a second call has returned on a conversation that now holds four turns
C1_Witness ==
    \E k \in Calls :
        /\ calls[k].pc = "done"
        /\ Len(history[calls[k].conversationId]) = 4
        /\ history[calls[k].conversationId][3].content = calls[k].input
        /\ history[calls[k].conversationId][4].content = calls[k].result.response

\* C2: a returned chat-first, code-first or reasoning-first call reports
\* as metadata.steps the agents it called, in the order of the calls, and
\* as the keys of metadata.agents exactly those agents; a chat-first call
\* whose Chat result asks for no code called the Chat agent only.
C2_StepsAreTheAgentsCalled ==
    \A k \in Calls :
        LET c == calls[k] IN
        (c.pc = "done" /\ c.actualWorkflow \in {"chat-first", "code-first", "reasoning-first"})
        => /\ c.result.metadata.steps = AgentsCalled(c)
           /\ DOMAIN c.result.metadata.agents = Range(AgentsCalled(c))
           /\ \A j \in DOMAIN c.inv : c.inv[j].status = "ok"
           /\ (c.actualWorkflow = "chat-first" /\ ~c.inv[1].out.needsCode)
              => /\ c.result.metadata.steps = <<"chat">>
                 /\ \A j \in DOMAIN c.inv : c.inv[j].agent = "chat"

\* a chat-first call returned after the Chat agent alone, and another
\* workflow returned after three agents
C2_Witness ==
    /\ \E k \in Calls :
          /\ calls[k].pc = "done" /\ calls[k].actualWorkflow = "chat-first"
          /\ ~calls[k].inv[1].out.needsCode
    /\ \E k \in Calls :
          /\ calls[k].pc = "done" /\ calls[k].actualWorkflow = "reasoning-first"
          /\ calls[k].result.metadata.steps = <<"reasoning", "code", "chat">>

\* C3: when an agent call of a process call fails, the process call fails
\* in that step: the agent is not called again, no further agent is
\* called, nothing is returned and no turn is appended; a failed process
\* call stays failed, calls no agent and owns no turn.
C3_FailedStepFailsTheCall ==
    [][ \A k \in Calls :
          /\ (\E j \in DOMAIN calls[k].inv : Settles(k, j) /\ calls'[k].inv[j].status = "failed")
             => /\ calls'[k].pc = "failed"
                /\ Len(calls'[k].inv) = Len(calls[k].inv)
                /\ calls'[k].result = NoResult
                /\ history' = history
          /\ calls[k].pc = "failed"
             => /\ calls'[k].pc = "failed"
                /\ Len(calls'[k].inv) = Len(calls[k].inv)
                /\ calls'[k].result = NoResult
                /\ TurnsOf(k, calls[k].conversationId) = {} ]_vars

\* a code-first call failed at its second step, on a conversation that
\* holds the turns of an earlier call
C3_Witness ==
    \E k \in Calls :
        /\ calls[k].pc = "failed" /\ calls[k].actualWorkflow = "code-first"
        /\ Len(calls[k].inv) = 2
        /\ calls[k].inv[1].status = "ok" /\ calls[k].inv[2].status = "failed"
        /\ Len(history[calls[k].conversationId]) = 2

\* C4: a collaborative call one of whose three parallel agent calls failed
\* has failed: it made no synthesis call, returned nothing and appended no
\* turn.
C4_ParallelFailureFailsTheCall ==
    \A k \in Calls :
        LET c == calls[k] IN
        (/\ c.actualWorkflow = "collaborative"
         /\ \E j \in DOMAIN c.inv : j <= 3 /\ c.inv[j].status = "failed")
        => /\ c.pc = "failed"
           /\ Len(c.inv) = 3
           /\ c.result = NoResult
           /\ TurnsOf(k, c.conversationId) = {}

\* one parallel call of a collaborative call failed and the two others
\* returned
C4_Witness ==
    \E k \in Calls :
        /\ calls[k].actualWorkflow = "collaborative" /\ calls[k].pc = "failed"
        /\ Cardinality({j \in DOMAIN calls[k].inv : calls[k].inv[j].status = "ok"}) = 2
        /\ Cardinality({j \in DOMAIN calls[k].inv : calls[k].inv[j].status = "failed"}) = 1

\* C5: a collaborative call makes its first three agent calls together, to
\* the Chat agent as interpreter, the Code agent as implementer and the
\* Reasoning agent as analyzer, each with the call's input and context; a
\* fourth call follows only when all three returned and goes to the
\* Reasoning agent as synthesizer; a returned call made exactly these four
\* calls, reports the steps parallel-processing and synthesis, and its
\* response is the synthesizer's response.
C5_CollaborativeShape ==
    \A k \in Calls :
        LET c == calls[k] IN
        (c.actualWorkflow = "collaborative" /\ c.pc # "idle")
        => /\ Len(c.inv) \in {3, 4}
           /\ <<c.inv[1].agent, c.inv[1].role>> = <<"chat", "interpreter">>
           /\ <<c.inv[2].agent, c.inv[2].role>> = <<"code", "implementer">>
           /\ <<c.inv[3].agent, c.inv[3].role>> = <<"reasoning", "analyzer">>
           /\ \A j \in 1..3 : c.inv[j].input = c.input /\ c.inv[j].context = c.context
           /\ Len(c.inv) = 4
              => /\ \A j \in 1..3 : c.inv[j].status = "ok"
                 /\ <<c.inv[4].agent, c.inv[4].role>> = <<"reasoning", "synthesizer">>
           /\ c.pc = "done"
              => /\ Len(c.inv) = 4
                 /\ c.inv[4].status = "ok"
                 /\ c.result.metadata.steps = <<"parallel-processing", "synthesis">>
                 /\ c.result.response = c.inv[4].out.response

\* a collaborative call has returned
C5_Witness ==
    \E k \in Calls :
        /\ calls[k].actualWorkflow = "collaborative" /\ calls[k].pc = "done"
        /\ calls[k].result.response = TextAnalysis

\* word occurs in text
Contains(text, word) ==
    \E i \in 1..(Len(text) - Len(word) + 1) : SubSeq(text, i, i + Len(word) - 1) = word

MentionsCode(input) ==
    \E w \in Range(codeIndicators) : Contains(toLowerCase(input), w)

MentionsReasoning(input) ==
    \E w \in Range(reasoningIndicators) : Contains(toLowerCase(input), w)

\* C6: the classification of an input is code-first when the lower-cased
\* input contains a code indicator, otherwise reasoning-first when it
\* contains a reasoning indicator, otherwise chat-first; an input with
\* indicators of both kinds is code-first; the classification is never
\* collaborative, so that the workflow selected for a request is
\* collaborative only when the request names it.
C6_WorkflowClassification ==
    sample.actual # ""
    => /\ sample.verdict = (IF MentionsCode(sample.input) THEN "code-first"
                            ELSE IF MentionsReasoning(sample.input)
                                 THEN "reasoning-first"
                                 ELSE "chat-first")
       /\ (MentionsCode(sample.input) /\ MentionsReasoning(sample.input))
          => sample.verdict = "code-first"
       /\ sample.verdict # "collaborative"
       /\ sample.workflow = "auto" => sample.actual = sample.verdict
       /\ sample.actual = "collaborative" => sample.workflow = "collaborative"

\* an input with a capitalised code indicator and a capitalised reasoning
\* indicator was classified on an auto request
C6_Witness ==
    /\ sample.actual = "code-first" /\ sample.workflow = "auto"
    /\ MentionsCode(sample.input) /\ MentionsReasoning(sample.input)
    /\ sample.input # toLowerCase(sample.input)

\* C7: a process call whose workflow is neither auto nor one of the four
\* workflows fails with the unknown-workflow error, without an agent call
\* and without a turn.
C7_UnknownWorkflowFails ==
    \A k \in Calls :
        LET c == calls[k] IN
        (c.pc # "idle" /\ c.workflow \notin WorkflowKinds \cup {"auto"})
        => /\ c.pc = "failed"
           /\ c.error = "UnknownWorkflow"
           /\ c.inv = <<>>
           /\ c.result = NoResult
           /\ TurnsOf(k, c.conversationId) = {}
           /\ \A i \in DOMAIN history[c.conversationId] :
                 history[c.conversationId][i].content # c.input
                 \/ \E o \in Calls : o # k /\ calls[o].input = c.input

\* a call with the workflow "pipeline" failed on a conversation that holds
\* the turns of another call
C7_Witness ==
    \E k \in Calls :
        /\ calls[k].workflow = "pipeline" /\ calls[k].pc = "failed"
        /\ calls[k].error = "UnknownWorkflow"
        /\ Len(history[calls[k].conversationId]) = 2

\* the agent calls to agent a that ended with the given status
CallsEnded(a, status) ==
    {<<k, j>> \in Calls \X (1..4) :
        /\ j \in DOMAIN calls[k].inv
        /\ calls[k].inv[j].agent = a
        /\ calls[k].inv[j].status = status}

\* C8: every call of an agent's process operation counts once in that
\* agent's metrics: totalRequests is the number of calls that ended,
\* successfulRequests the number that returned and failedRequests the
\* number that failed.
C8_MetricsCountEveryCall ==
    \A a \in AgentTypes :
        /\ metrics[a].successfulRequests = Cardinality(CallsEnded(a, "ok"))
        /\ metrics[a].failedRequests = Cardinality(CallsEnded(a, "failed"))
        /\ metrics[a].totalRequests =
               Cardinality(CallsEnded(a, "ok")) + Cardinality(CallsEnded(a, "failed"))

\* C9: in every conversation the turns of a call issued earlier precede
\* the turns of a call issued later (calls are numbered in the order in
\* which they are issued).
C9_TurnsInCallOrder ==
    \A id \in DOMAIN appendedBy :
        \A i, j \in DOMAIN appendedBy[id] :
            i < j => appendedBy[id][i] <= appendedBy[id][j]

\* C10: every pending agent call eventually returns or fails, and every
\* pending process call eventually returns or fails.
C10_EveryCallSettles ==
    \A k \in Calls :
        /\ (calls[k].pc = "running") ~> (calls[k].pc \in {"done", "failed"})
        /\ \A j \in 1..4 : Pending(k, j, "chat") ~> ~Pending(k, j, "chat")
        /\ \A j \in 1..4 : Pending(k, j, "code") ~> ~Pending(k, j, "code")
        /\ \A j \in 1..4 : Pending(k, j, "reasoning") ~> ~Pending(k, j, "reasoning")

\* C11: every agent call a process call on conversation id makes is given
\* a context that holds every key the context store holds for id when the
\* agent call is made, with the stored value unless the request's own
\* context carries the key.
C11_StepsSeeAccumulatedContext ==
    [][ \A k \in Calls :
          \A j \in DOMAIN calls'[k].inv \ DOMAIN calls[k].inv :
              LET c == calls'[k]
                  id == c.conversationId
                  stored == IF id \in DOMAIN contextStore THEN contextStore[id]
                            ELSE EmptyContext
              IN  \A key \in DOMAIN stored :
                      /\ key \in DOMAIN c.inv[j].context
                      /\ key \notin DOMAIN c.context
                         => c.inv[j].context[key] = stored[key] ]_vars

\* GET /conversations/:id.  The route parameter is a string, and the key
\* under which a call without a conversationId is stored is not a string.
getConversation(id) ==
    IF id \in conversations /\ id # NoConversationId
    THEN [status |-> 200, conversation |-> history[id]]
    ELSE [status |-> 404, conversation |-> <<>>]

\* C12: the conversationId a process call returns is one under which
\* GET /conversations/:id finds the conversation with the two turns of the
\* call, also when the request named no conversationId; two calls that
\* named none do not return the same conversationId.
C12_ReturnedIdFindsTheConversation ==
    \A k \in Calls :
        calls[k].pc = "done"
        => LET id == calls[k].result.conversationId
               found == getConversation(id)
           IN  /\ found.status = 200
               /\ Cardinality(TurnsOf(k, id)) = 2
               /\ \A i \in TurnsOf(k, id) : found.conversation[i] = history[id][i]
               /\ \A o \in Calls \ {k} :
                     (/\ calls[o].pc = "done"
                      /\ calls[o].conversationId = NoConversationId
                      /\ calls[k].conversationId = NoConversationId)
                     => calls[o].result.conversationId # id

\* C13: a read of the context of a conversation id that follows another
\* read of that id, with no update in between, answers the same context,
\* and no read changes the context store.
C13_GetContextIsIdempotent ==
    [][ sample'.kind = "read"
        => /\ contextStore' = contextStore
           /\ (sample.kind = "read" /\ sample'.id = sample.id)
              => sample'.context = sample.context ]_vars

\* the context of a conversation with a stored context was read twice in
\* a row
C13_Witness ==
    /\ sample.kind = "read" /\ sample.reads = 2
    /\ sample.context # EmptyContext
    /\ sample.context = contextStore[sample.id]

NoDuplicates(s) == \A i, j \in DOMAIN s : s[i] = s[j] => i = j

\* C14: whatever Chat agent calls were made, returned or failed, every
\* conversation context holds at most 20 topics, no topic twice, and at
\* most 10 tasks, and every user profile holds at most 20 previous
\* questions and at most 10 interests.
C14_ChatAgentStateIsBounded ==
    /\ \A id \in DOMAIN conversationContext :
           /\ Len(conversationContext[id].topics) <= 20
           /\ NoDuplicates(conversationContext[id].topics)
           /\ Len(conversationContext[id].tasks) <= 10
    /\ \A u \in DOMAIN userProfiles :
           /\ Len(userProfiles[u].previousQuestions) <= 20
           /\ Len(userProfiles[u].interests) <= 10

\* a profile and a conversation context that are full and have lost their
\* oldest entries to the newest ones
C14_Witness ==
    /\ sample.pc = "returned"
    /\ "u1" \in DOMAIN userProfiles /\ "c1" \in DOMAIN conversationContext
    /\ Len(userProfiles["u1"].previousQuestions) = 20
    /\ userProfiles["u1"].previousQuestions[19] # InHello
    /\ Len(userProfiles["u1"].interests) = 10
    /\ userProfiles["u1"].interests[10] = <<"d", "a", "t", "a", "b", "a", "s", "e">>
    /\ Len(conversationContext["c1"].tasks) = 10
    /\ conversationContext["c1"].tasks[10].description = <<"t", "e", "s", "t">>
    /\ Len(conversationContext["c1"].topics) = 10

ExpertiseRank(level) ==
    CASE level = "beginner" -> 0 [] level = "intermediate" -> 1 [] level = "expert" -> 2

NamesExpertTerm(input) ==
    \E word \in {<<"o", "p", "t", "i", "m", "i", "z", "e">>,
                 <<"p", "e", "r", "f", "o", "r", "m", "a", "n", "c", "e">>,
                 <<"a", "r", "c", "h", "i", "t", "e", "c", "t", "u", "r", "e">>,
                 <<"s", "c", "a", "l", "a", "b", "i", "l", "i", "t", "y">>} :
        Contains(toLowerCase(input), word)

\* C15: in every step, the expertise of every user profile, beginner for a
\* user without one, stays or rises by one level along beginner,
\* intermediate, expert, and it rises only in a step that starts a request
\* whose input names an expert term.
C15_ExpertiseOnlyRises ==
    [][ \A u \in DOMAIN userProfiles' :
            LET old == IF u \in DOMAIN userProfiles
                       THEN ExpertiseRank(userProfiles[u].expertise) ELSE 0
                new == ExpertiseRank(userProfiles'[u].expertise)
            IN  /\ new \in {old, old + 1}
                /\ new = old + 1
                   => /\ sample'.pc = "generating"
                      /\ u = UserIdOf(sample'.body.context)
                      /\ NamesExpertTerm(sample'.body.input) ]_vars

\* a user's expertise was raised by a request that names an expert term,
\* after a request with a beginner term had left it alone
C15_Witness ==
    /\ sample.n = 2 /\ sample.pc = "generating"
    /\ sample.body.input = InOptimize
    /\ "anonymous" \in DOMAIN userProfiles
    /\ userProfiles["anonymous"].expertise = "intermediate"
    /\ userProfiles["anonymous"].previousQuestions = <<InWhatIs, InOptimize>>

\* the responses of the agent calls of c, in the order of the calls, with a
\* blank line between one and the next
ResponsesInOrder(c) ==
    LET F[j \in 0..Len(c.inv)] ==
            IF j = 0 THEN <<>>
            ELSE IF j = 1 THEN c.inv[1].out.response
            ELSE F[j - 1] \o <<"\n", "\n">> \o c.inv[j].out.response
    IN  F[Len(c.inv)]

\* C16: the response a chat-first, code-first or reasoning-first call
\* returns is the responses of the agents it called, in the order of the
\* calls, joined by a blank line; it called no agent besides the reported
\* steps, and the response of every agent it called occurs in it.
C16_ResponseJoinsEveryAgent ==
    \A k \in Calls :
        LET c == calls[k] IN
        (c.pc = "done" /\ c.actualWorkflow \in {"chat-first", "code-first", "reasoning-first"})
        => /\ c.result.response = ResponsesInOrder(c)
           /\ Len(c.inv) = Len(c.result.metadata.steps)
           /\ \A j \in DOMAIN c.inv :
                  /\ c.inv[j].status = "ok"
                  /\ Contains(c.result.response, c.inv[j].out.response)

\* a call returned the differing responses of three agents
C16_Witness ==
    \E k \in Calls :
        LET c == calls[k] IN
        /\ c.pc = "done" /\ c.actualWorkflow \in {"chat-first", "code-first", "reasoning-first"}
        /\ Len(c.inv) = 3
        /\ c.inv[1].out.response # c.inv[2].out.response
        /\ c.inv[2].out.response # c.inv[3].out.response
        /\ c.inv[1].out.response # c.inv[3].out.response
        /\ Len(c.result.response) =
               Len(c.inv[1].out.response) + Len(c.inv[2].out.response)
               + Len(c.inv[3].out.response) + 4

\* the active models generate may use for a request, best first: the
\* model asked for, the models the role prefers, any model
ModelPreference(active, modelId, role) ==
    LET ids == [i \in DOMAIN active |-> active[i].modelId]
        llamas == Keep(ids, {i \in DOMAIN active : active[i].provider = "llamacpp"})
        ofRole == CASE role = "chat" -> <<"openai-gpt-4", "gemini-pro">> \o llamas
                    [] role = "code" -> <<"openai-gpt-4">> \o llamas
                    [] role = "reasoning" -> <<"claude-3-opus", "openai-gpt-4">> \o llamas
                    [] OTHER -> <<>>
        wanted == <<modelId>> \o ofRole \o ids
    IN  Keep(wanted, {i \in DOMAIN wanted : wanted[i] \in Range(ids)})

\* C17: generate uses the active model registered under the model id it
\* is given; without one, the first active model among those its role
\* prefers, in the role's order; without one of these, the first active
\* model; it fails, with "Model not available", exactly when no model is
\* active.
C17_GenerateSelectsByPreference ==
    [][ sample'.last # sample.last
        => LET preferred == ModelPreference(sample.active, sample'.last.modelId,
                                            sample'.last.role)
               answer == sample'.last.answer
           IN  /\ sample'.active = sample.active
               /\ IF sample.active = <<>>
                  THEN answer.status = "error" /\ answer.error = "Model not available"
                  ELSE /\ answer.status = "ok"
                       /\ answer.used.modelId = preferred[1] ]_vars

\* a reasoning request for a model that is not active was given
\* openai-gpt-4, which is not the first active model, the role's first
\* choice not being active
C17_Witness ==
    /\ sample.last.answer.status = "ok"
    /\ sample.last.role = "reasoning" /\ sample.last.modelId = "default"
    /\ sample.last.answer.used.modelId = "openai-gpt-4"
    /\ Len(sample.active) >= 2
    /\ sample.active[1].modelId = "ollama-phi"
    /\ "claude-3-opus" \notin ActiveIds(sample.active)

\* C18: a Chat agent call whose request has no input fails with an
\* InvalidRequest error, reaches no model call, and leaves every agent
\* metric but the failure counter as it was.
C18_MalformedRequestIsInvalidRequest ==
    (sample.pc # "idle" /\ ~Has(sample.body, "input"))
    => /\ sample.pc = "failed"
       /\ sample.error = "InvalidRequest"
       /\ ~sample.generated
       /\ \A a \in AgentTypes :
              /\ metrics[a].totalRequests = NewMetrics.totalRequests
              /\ metrics[a].successfulRequests = NewMetrics.successfulRequests

\* C19: a chat-first call calls the Chat agent first; it calls the Code
\* agent exactly when the Chat result asks for code, and the Reasoning
\* agent exactly when the Code agent was called and its result asks for
\* validation; a Chat result that asks for reasoning alone leads to no
\* Reasoning call.  The agents called are chat, or chat and code, or chat,
\* code and reasoning, and a returned call reports them as its steps.
C19_ChatFirstSteps ==
    \A k \in Calls :
        LET c == calls[k] IN
        (c.actualWorkflow = "chat-first" /\ c.inv # <<>>)
        => /\ AgentsCalled(c) \in {<<"chat">>, <<"chat", "code">>,
                                   <<"chat", "code", "reasoning">>}
           /\ 2 \in DOMAIN c.inv => c.inv[1].status = "ok"
           /\ 3 \in DOMAIN c.inv => c.inv[2].status = "ok"
           /\ c.inv[1].status = "ok" => (c.inv[1].out.needsCode <=> 2 \in DOMAIN c.inv)
           /\ (2 \in DOMAIN c.inv /\ c.inv[2].status = "ok")
              => (c.inv[2].out.needsValidation <=> 3 \in DOMAIN c.inv)
           /\ (c.inv[1].status = "ok" /\ c.inv[1].out.needsReasoning
               /\ ~c.inv[1].out.needsCode) => Len(c.inv) = 1
           /\ c.pc = "done" => c.result.metadata.steps = AgentsCalled(c)

\* a chat-first call whose Chat result asked for reasoning and for no code
\* returned after the Chat agent alone
C19_Witness ==
    \E k \in Calls :
        /\ calls[k].pc = "done" /\ calls[k].actualWorkflow = "chat-first"
        /\ calls[k].input = InSecurity
        /\ calls[k].inv[1].out.needsReasoning /\ ~calls[k].inv[1].out.needsCode
        /\ calls[k].inv[1].out.strategy = "analysis-assisted"
        /\ calls[k].result.metadata.steps = <<"chat">>

\* C20: a call with workflow "auto" whose input names a code indicator
\* runs code-first; a code-first call calls the Code agent, then the
\* Reasoning agent, then the Chat agent, whatever the results ask for, and
\* a returned one has called exactly these three, reports them as its
\* steps and returns a response in which the response of each occurs.
C20_CodeFirstRunsThreeAgents ==
    \A k \in Calls :
        LET c == calls[k] IN
        /\ (c.pc # "idle" /\ c.workflow = "auto" /\ MentionsCode(c.input))
           => c.actualWorkflow = "code-first"
        /\ c.actualWorkflow = "code-first"
           => /\ \A j \in DOMAIN c.inv : c.inv[j].agent = <<"code", "reasoning", "chat">>[j]
              /\ \A j \in DOMAIN c.inv :
                     (c.inv[j].status = "ok" /\ j < 3) => j + 1 \in DOMAIN c.inv
              /\ c.pc = "done"
                 => /\ Len(c.inv) = 3
                    /\ c.result.metadata.steps = <<"code", "reasoning", "chat">>
                    /\ \A j \in 1..3 :
                           /\ c.inv[j].status = "ok"
                           /\ c.inv[j].out.response # <<>>
                           /\ Contains(c.result.response, c.inv[j].out.response)

\* "write a function to reverse a string" with workflow "auto" returned
\* after three agents, the Code result asking for no validation and the
\* Reasoning result for no implementation
C20_Witness ==
    \E k \in Calls :
        /\ calls[k].pc = "done" /\ calls[k].workflow = "auto"
        /\ calls[k].input = InReverse
        /\ calls[k].result.workflow = "code-first"
        /\ calls[k].result.metadata.steps = <<"code", "reasoning", "chat">>
        /\ ~calls[k].inv[1].out.needsValidation
        /\ ~calls[k].inv[2].out.needsImplementation

\* C21: a reasoning-first call calls the Reasoning agent first; when the
\* Reasoning result asks for an implementation it goes on with the Code
\* agent and then the Chat agent, otherwise with the Chat agent alone; a
\* returned call reports reasoning, code, chat or reasoning, chat as its
\* steps, the Chat agent last.  A call with workflow "auto" whose input
\* names a reasoning indicator and no code indicator runs reasoning-first.
C21_ReasoningFirstSteps ==
    \A k \in Calls :
        LET c == calls[k] IN
        /\ (c.pc # "idle" /\ c.workflow = "auto" /\ MentionsReasoning(c.input)
            /\ ~MentionsCode(c.input))
           => c.actualWorkflow = "reasoning-first"
        /\ (c.actualWorkflow = "reasoning-first" /\ c.inv # <<>>)
           => /\ c.inv[1].agent = "reasoning"
              /\ \A j \in DOMAIN c.inv : j > 1 => c.inv[j - 1].status = "ok"
              /\ c.inv[1].status = "ok"
                 => /\ 2 \in DOMAIN c.inv
                    /\ AgentsCalled(c) \in
                           (IF c.inv[1].out.needsImplementation
                            THEN {<<"reasoning", "code">>, <<"reasoning", "code", "chat">>}
                            ELSE {<<"reasoning", "chat">>})
                    /\ (c.inv[2].agent = "code" /\ c.inv[2].status = "ok")
                       => 3 \in DOMAIN c.inv
              /\ c.pc = "done"
                 => /\ c.result.metadata.steps = AgentsCalled(c)
                    /\ c.result.metadata.steps \in
                           {<<"reasoning", "code", "chat">>, <<"reasoning", "chat">>}
                    /\ c.inv[Len(c.inv)].agent = "chat"

\* "explain how quicksort works" with workflow "auto" returned after the
\* Reasoning agent, which asked for no implementation, and the Chat agent
C21_Witness ==
    \E k \in Calls :
        /\ calls[k].pc = "done" /\ calls[k].workflow = "auto"
        /\ calls[k].input = InQuicksort
        /\ calls[k].result.workflow = "reasoning-first"
        /\ ~calls[k].inv[1].out.needsImplementation
        /\ calls[k].result.metadata.steps = <<"reasoning", "chat">>

\* the agent calls of c that are in flight
InFlight(c) == {j \in DOMAIN c.inv : c.inv[j].status = "running"}

\* C22: in a chat-first, code-first or reasoning-first call every agent
\* call but the first is made after the one before it returned, so at most
\* one is in flight; in a collaborative call the synthesis call is made
\* only after the three parallel calls returned; and a call owns turns of
\* its conversation only when it has returned, no agent call in flight.
C22_StepsFollowTheirPredecessors ==
    \A k \in Calls :
        LET c == calls[k] IN
        /\ c.actualWorkflow \in {"chat-first", "code-first", "reasoning-first"}
           => /\ Cardinality(InFlight(c)) <= 1
              /\ \A j \in DOMAIN c.inv : j > 1 => c.inv[j - 1].status = "ok"
        /\ c.actualWorkflow = "collaborative"
           => /\ Len(c.inv) <= 4
              /\ 4 \in DOMAIN c.inv
                 => /\ \A j \in 1..3 : c.inv[j].status = "ok"
                    /\ c.inv[4].agent = "reasoning" /\ c.inv[4].role = "synthesizer"
        /\ TurnsOf(k, c.conversationId) # {}
           => /\ c.pc = "done"
              /\ InFlight(c) = {}
              /\ \A j \in DOMAIN c.inv : c.inv[j].status = "ok"

\* a collaborative call with its synthesis call in flight, made after the
\* three parallel calls returned, beside a call with one agent in flight
C22_Witness ==
    /\ \E k \in Calls :
          /\ calls[k].actualWorkflow = "collaborative"
          /\ InFlight(calls[k]) = {4}
    /\ \E k \in Calls :
          /\ calls[k].actualWorkflow = "chat-first"
          /\ InFlight(calls[k]) = {1}

\* C23: a collaborative call that has returned or failed has none of its
\* three parallel agent calls in flight.
C23_FinishedCallHasNothingInFlight ==
    \A k \in Calls :
        (calls[k].actualWorkflow = "collaborative" /\ calls[k].pc \in {"done", "failed"})
        => \A j \in DOMAIN calls[k].inv : j <= 3 => calls[k].inv[j].status # "running"

\* what agent call j of c is seeded with by the calls before it
SeededBy(c, j) ==
    LET of(i) == c.inv[i].out.context IN
    CASE c.actualWorkflow = "chat-first" /\ j = 2 -> [chatContext |-> of(1)]
      [] c.actualWorkflow = "chat-first" /\ j = 3 -> [codeContext |-> of(2)]
      [] c.actualWorkflow = "code-first" /\ j = 2 -> [codeContext |-> of(1)]
      [] c.actualWorkflow = "code-first" /\ j = 3 ->
             [codeContext |-> of(1), reasoningContext |-> of(2)]
      [] c.actualWorkflow = "reasoning-first" /\ j = 2 -> [reasoningContext |-> of(1)]
      [] c.actualWorkflow = "reasoning-first" /\ j = 3 ->
             [reasoningContext |-> of(1), codeContext |-> of(2)]
      [] c.actualWorkflow = "collaborative" /\ j = 4 ->
             [chatPerspective |-> c.inv[1].out.response,
              codePerspective |-> c.inv[2].out.response,
              reasoningPerspective |-> c.inv[3].out.response]
      [] OTHER -> EmptyContext

\* C24: the context every agent call of a process call is given holds the
\* keys of the caller's context and the keys the calls before it seed, and
\* no other; a key is given with the caller's value unless it is seeded,
\* and then with the seeded value; and the caller's context stays as it
\* was for as long as the call lasts.
C24_ContextIsAdditive ==
    [][ \A k \in Calls :
          LET c == calls'[k] IN
          /\ calls[k].pc # "idle" => c.context = calls[k].context
          /\ \A j \in DOMAIN c.inv :
                 LET given == c.inv[j].context
                     seeded == SeededBy(c, j)
                 IN  /\ DOMAIN given = DOMAIN c.context \cup DOMAIN seeded
                     /\ \A key \in DOMAIN given :
                            given[key] = IF key \in DOMAIN seeded THEN seeded[key]
                                         ELSE c.context[key] ]_vars

\* a call whose caller supplied a codeContext of its own has given its
\* third agent the caller's conversationId and the seeded codeContext
C24_Witness ==
    \E k \in Calls :
        /\ calls[k].context = OwnCodeContext
        /\ Len(calls[k].inv) = 3
        /\ calls[k].inv[3].context.conversationId = "c1"
        /\ calls[k].inv[3].context.codeContext # OwnCodeContext.codeContext
        /\ calls[k].inv[1].context.codeContext = OwnCodeContext.codeContext

\* C25: the Chat agent answers a request with role interpreter under the
\* interpreter preamble, one with role synthesizer under the synthesizer
\* preamble, and any other under the default preamble.
C25_PreambleFollowsRole ==
    \A k \in Calls :
        \A j \in DOMAIN calls[k].inv :
            calls[k].inv[j].agent = "chat"
            => calls[k].inv[j].systemPrompt =
                   (IF calls[k].inv[j].role \in {"interpreter", "synthesizer"}
                    THEN calls[k].inv[j].role ELSE "default")

\* C26: when a Chat agent call of a process call on a named conversation
\* returns, the Chat agent's conversation context of that conversation
\* exists and holds the topics of the turn.
C26_ChatTurnUpdatesConversationContext ==
    [][ \A k \in Calls :
          \A j \in DOMAIN calls[k].inv :
              (/\ Settles(k, j)
               /\ calls[k].inv[j].agent = "chat"
               /\ calls'[k].inv[j].status = "ok"
               /\ calls[k].conversationId # NoConversationId)
              => LET id == calls[k].conversationId
                     turn == calls'[k].inv[j]
                 IN  /\ id \in DOMAIN conversationContext'
                     /\ Range(TopicsTable[turn.input, turn.out.response])
                            \subseteq Range(conversationContext'[id].topics) ]_vars

\* C27: retry calls the operation at most maxRetries times; it resolves
\* only with the value of a successful attempt; the waits it has set are
\* delay, 2 * delay, 4 * delay, ..., one after every failed attempt but the
\* last; and it rejects only when maxRetries attempts have failed, with
\* the error of the last.
C27_RetryIsBoundedBackoff ==
    /\ sample.attempts <= sample.maxRetries
    /\ sample.pc = "resolved"
       => /\ sample.succeeded
          /\ sample.value \in OperationValues
          /\ Len(sample.waits) = sample.attempts - 1
    /\ \A n \in DOMAIN sample.waits :
           sample.waits[n] = sample.delay * <<1, 2, 4, 8, 16, 32>>[n]
    /\ sample.pc = "rejected"
       => /\ sample.attempts = sample.maxRetries
          /\ Len(sample.waits) = sample.maxRetries - 1
          /\ sample.error \in AgentErrors

\* C29: at most maxConcurrentModels local models are active, and no load
\* is waiting for its provider for a model id that is active or that
\* another load is waiting for.
C29_LocalModelsStayWithinLimit ==
    /\ Cardinality({i \in DOMAIN sample.active :
                        sample.active[i].provider \in {"llamacpp", "ollama"}}) <= 3
    /\ \A n \in DOMAIN sample.loading :
           /\ \A i \in DOMAIN sample.active :
                  sample.active[i].modelId # sample.loading[n].modelId
           /\ \A m \in DOMAIN sample.loading :
                  sample.loading[m].modelId = sample.loading[n].modelId => m = n

\* C28: every conversation's history is a sequence of adjacent pairs, a
\* user turn followed by the assistant turn of the same process call,
\* whichever way concurrent calls, returning or failing, interleave.
C28_HistoryIsAdjacentPairs ==
    \A id \in DOMAIN history :
        /\ Len(history[id]) % 2 = 0
        /\ Len(appendedBy[id]) = Len(history[id])
        /\ \A i \in DOMAIN history[id] :
               /\ history[id][i].type = IF i % 2 = 1 THEN "user" ELSE "assistant"
               /\ i % 2 = 1
                  => /\ appendedBy[id][i] = appendedBy[id][i + 1]
                     /\ calls[appendedBy[id][i]].pc = "done"
                     /\ history[id][i].content = calls[appendedBy[id][i]].input
                     /\ history[id][i + 1].content =
                            calls[appendedBy[id][i]].result.response

\* two calls on one conversation overlapped, the later-issued one returned
\* first, and the conversation holds the two pairs
C28_Witness ==
    /\ "c1" \in DOMAIN history
    /\ Len(history["c1"]) = 4
    /\ appendedBy["c1"] = <<2, 2, 1, 1>>
    /\ Len(calls[1].inv) >= 2

\* C30: a process call that failed on a named conversation leaves the
\* conversation registered, so that GET /conversations/:id finds it, with
\* no turn of the failed call and with an empty history when no call on
\* it has returned; and every key of the call's context is in the
\* per-conversation context, with the call's value unless another call on
\* the conversation wrote the key.
C30_FailedCallKeepsConversationAndContext ==
    \A k \in Calls :
        (calls[k].pc = "failed" /\ calls[k].conversationId # NoConversationId)
        => LET id == calls[k].conversationId
               found == getConversation(id)
           IN  /\ id \in conversations
               /\ found.status = 200
               /\ found.conversation = history[id]
               /\ TurnsOf(k, id) = {}
               /\ (\A o \in Calls : calls[o].conversationId = id => calls[o].pc # "done")
                  => found.conversation = <<>>
               /\ id \in DOMAIN contextStore
               /\ \A key \in DOMAIN calls[k].context :
                      /\ key \in DOMAIN contextStore[id]
                      /\ \/ contextStore[id][key] = calls[k].context[key]
                         \/ \E o \in Calls \ {k} :
                                /\ calls[o].pc # "idle"
                                /\ calls[o].conversationId = id
                                /\ key \in DOMAIN calls[o].context
                                /\ contextStore[id][key] = calls[o].context[key]

\* one call on c1 failed for its unknown workflow and one for a failed
\* agent call; c1 is found with an empty history and with the context of
\* the calls merged
C30_Witness ==
    /\ calls[1].pc = "failed" /\ calls[1].error = "UnknownWorkflow"
    /\ calls[1].conversationId = "c1"
    /\ calls[1].context = [conversationId |-> "c1", userId |-> "u1"]
    /\ calls[2].pc = "failed" /\ calls[2].error \in AgentErrors
    /\ calls[2].conversationId = "c1"
    /\ getConversation("c1") = [status |-> 200, conversation |-> <<>>]
    /\ contextStore["c1"] = [conversationId |-> "c1", userId |-> "u1"]
====
